---------------------------- MODULE Spec2Model ----------------------------
(***************************************************************************)
(* Verification model of the anime schedule acquisition-and-forecast core: *)
(*   - AnimeDataScraper   (services/webScraper: scrapeAniwatch,            *)
(*                         normalizeDay, getDateForDay, getFallbackSchedule)*)
(*   - AnimeAutoScheduler (services/autoScheduler.ts: detectChanges,       *)
(*                         autoScheduleEpisodes, updateScheduleAfterAiring, *)
(*                         confirmEpisodeDate)                             *)
(*   - firestoreHelpers   (config/firebase.ts: saveSchedule, getSchedules) *)
(*                                                                         *)
(* Text is modelled as sequences of one-character strings so that          *)
(* toLowerCase, trim, includes, parseInt and the regular-expression        *)
(* replacements are computed character by character, as the code does.     *)
(*                                                                         *)
(* A calendar date is a day number (an integer count of days); day 0 is a  *)
(* Sunday, so the weekday of day n is n % 7 with 0 = Sunday, as getDay().  *)
(* A JavaScript Date is an instant: it has a UTC calendar day (what        *)
(* toISOString prints) and a local calendar day (what getDay, getDate,     *)
(* setDate and date-fns format use), which differ by -1, 0 or +1.          *)
(***************************************************************************)
EXTENDS Integers, Sequences, FiniteSets, TLC

VARIABLES
  \* ---- scrapeAniwatch (one run of the retry loop) ----
  spc,          \* position: "idle", "try" (about to fetch), "sleep", "returned"
  proxyIndex,   \* loop variable of the outer for
  attempt,      \* loop variable of the inner for
  attempts,     \* number of fetch() calls made in this run
  totalSleep,   \* sum of the sleep(delay) arguments of this run, in ms
  lastError,    \* reason of the last caught failure, "none" before any
  returned,     \* the value the promise resolved with
  origin,       \* which return statement produced it: "live" (line 64), "fallback" (line 81)
  now,          \* the instant new Date() gives during the run
  observations, \* every (origin, returned value) pair a caller has received
  \* ---- getDateForDay applied to one input ----
  dpc,          \* "input" before the call, "done" after
  dayName,      \* argument dayName
  reference,    \* argument reference
  dateResult,   \* the day number of the returned ISO date
  \* ---- detectChanges applied to one pair of snapshots ----
  cpc,            \* "input" before the call, "done" after
  todayScrape,    \* argument todayScrape (the spec's `current`)
  yesterdayScrape,\* argument yesterdayScrape (the spec's `previous`)
  changes,        \* the returned list of ScheduleChange
  \* ---- the forecaster and its Firestore collection 'schedules' ----
  schedules,    \* the collection: document id -> ScheduleDocument
  clock,        \* the local calendar day new Date() gives to the forecaster (a day number)
  ops,          \* number of forecaster calls made so far
  lastCall,     \* the last forecaster call: its arguments, outcome and return value
  \* ---- refreshData (one acquisition cycle at a time) and the collection 'scrapes' ----
  scrapes,        \* the collection: date -> ScrapeDocument
  rpc,            \* position of refreshData: the await it is suspended at, or "idle"
  yesterdayStr,   \* local const yesterdayStr
  yesterdayData,  \* local const yesterdayData (Null for null)
  todayStr,       \* local const today
  scrapedData,    \* local const scrapedData
  loopIndex,      \* position of `for (const anime of scrapedData)` (1-based)
  animeSchedule,  \* React state animeSchedule
  scheduleChanges,\* React state scheduleChanges
  uiError,        \* React state error ("none" for null)
  toast,          \* the last toast shown ("none" before any)
  cycles,         \* number of refreshData calls made so far
  ran,            \* the store and service calls this cycle has completed, in order
  failedAt,       \* position in ran of the first call that met a store failure, 0 if none
  scrapesAtStart, \* the collection 'scrapes' as it was when this cycle started
  firstStored,    \* for each date, the anime list first stored for it
  \* ---- parseAniwatchHTML applied to one document ----
  ppc,            \* "input" before the call, "done" after
  document,       \* what the selectors find in the parsed html
  parseToday,     \* the instant `const today = new Date()` gives
  extracted,      \* the returned list of AnimeData
  \* ---- one attempt of scrapeAniwatch, await by await ----
  timer,          \* the 15 s timer of the attempt: "none", "armed", "cleared", "fired"
  response,       \* what the attempt has received: status, body length, extraction
  \* ---- the animeId of saveScheduleToFirestore applied to two entries ----
  ipc,            \* "input" before the two schedules are built, "done" after
  idInput,        \* the two entries
  idOutput,       \* the animeId of the schedule built for each
  \* ---- two calls of the partial updates in flight at once ----
  tasks,          \* per call: the method, its arguments, the await it is at, its locals
  atStart         \* the document the collection held when the two calls were made

scrapeVars == <<spc, proxyIndex, attempt, attempts, totalSleep, lastError,
                returned, origin, now, observations>>
dateVars == <<dpc, dayName, reference, dateResult>>
diffVars == <<cpc, todayScrape, yesterdayScrape, changes>>
forecastVars == <<schedules, clock, ops, lastCall>>
cycleVars == <<scrapes, rpc, yesterdayStr, yesterdayData, todayStr, scrapedData, loopIndex,
               animeSchedule, scheduleChanges, uiError, toast, cycles, ran,
               failedAt, scrapesAtStart, firstStored>>
\* The variables of the components modelled after the forecaster.
parseVars == <<ppc, document, parseToday, extracted>>
fetchVars == <<timer, response>>
idVars == <<ipc, idInput, idOutput>>
taskVars == <<tasks, atStart>>
restVars == <<cycleVars, parseVars, fetchVars, idVars, taskVars, taskVars>>
vars == <<scrapeVars, dateVars, diffVars, forecastVars, restVars>>

(***************************************************************************)
(* Bounds of the model.                                                    *)
(***************************************************************************)
\* Reference instants have UTC day 0..MaxRefDay (7 consecutive days: every weekday).
MaxRefDay == 6

(***************************************************************************)
(* Text.                                                                   *)
(***************************************************************************)
UpperCase == <<"A","B","C","D","E","F","G","H","I","J","K","L","M",
               "N","O","P","Q","R","S","T","U","V","W","X","Y","Z">>
LowerCase == <<"a","b","c","d","e","f","g","h","i","j","k","l","m",
               "n","o","p","q","r","s","t","u","v","w","x","y","z">>
Digits == <<"0","1","2","3","4","5","6","7","8","9">>
WhiteSpace == {" "}

\* The index of c in the sequence s, 0 when it is not there.
IndexOf(s, c) ==
  IF \E i \in 1..Len(s) : s[i] = c
  THEN CHOOSE i \in 1..Len(s) : s[i] = c /\ \A j \in 1..(i-1) : s[j] # c
  ELSE 0

\* A character outside ASCII is written by its code point.  U+0130 (capital
\* I with dot above) is the character whose lower case is two characters
\* long: i followed by U+0307 (combining dot above).
CapitalIWithDot == "U+0130"
CombiningDot == "U+0307"

ToLowerChar(c) ==
  IF IndexOf(UpperCase, c) # 0 THEN LowerCase[IndexOf(UpperCase, c)] ELSE c

\* The lower case of s from position i on.
RECURSIVE ToLowerFrom(_, _)
ToLowerFrom(s, i) ==
  IF i > Len(s) THEN <<>>
  ELSE (IF s[i] = CapitalIWithDot THEN <<"i", CombiningDot>>
        ELSE <<ToLowerChar(s[i])>>) \o ToLowerFrom(s, i + 1)

\* String.prototype.toLowerCase
ToLowerCase(s) ==
  IF \A i \in 1..Len(s) : s[i] # CapitalIWithDot
    THEN [i \in 1..Len(s) |-> ToLowerChar(s[i])]
    ELSE ToLowerFrom(s, 1)

\* String.prototype.trim
Trim(s) ==
  LET keep == {i \in 1..Len(s) : s[i] \notin WhiteSpace}
  IN  IF keep = {} THEN <<>>
      ELSE LET lo == CHOOSE i \in keep : \A j \in keep : i <= j
               hi == CHOOSE i \in keep : \A j \in keep : j <= i
           IN  SubSeq(s, lo, hi)

\* String.prototype.includes
Includes(s, sub) ==
  \E i \in 0..(Len(s) - Len(sub)) : SubSeq(s, i + 1, i + Len(sub)) = sub

(***************************************************************************)
(* Day names: the canonical names and the abbreviations normalizeDay knows. *)
(***************************************************************************)
Sunday == <<"S","u","n","d","a","y">>
Monday == <<"M","o","n","d","a","y">>
Tuesday == <<"T","u","e","s","d","a","y">>
Wednesday == <<"W","e","d","n","e","s","d","a","y">>
Thursday == <<"T","h","u","r","s","d","a","y">>
Friday == <<"F","r","i","d","a","y">>
Saturday == <<"S","a","t","u","r","d","a","y">>
Unknown == <<"U","n","k","n","o","w","n">>

\* const days = ['Sunday', ..., 'Saturday'] of getDateForDay (and of parseAniwatchHTML)
days == <<Sunday, Monday, Tuesday, Wednesday, Thursday, Friday, Saturday>>

\* The lookup table `days` of normalizeDay: key -> canonical name.
normalizeDayTable ==
  << <<<<"s","u","n">>, Sunday>>, <<<<"s","u","n","d","a","y">>, Sunday>>,
     <<<<"m","o","n">>, Monday>>, <<<<"m","o","n","d","a","y">>, Monday>>,
     <<<<"t","u","e">>, Tuesday>>, <<<<"t","u","e","s","d","a","y">>, Tuesday>>,
     <<<<"w","e","d">>, Wednesday>>, <<<<"w","e","d","n","e","s","d","a","y">>, Wednesday>>,
     <<<<"t","h","u">>, Thursday>>, <<<<"t","h","u","r","s","d","a","y">>, Thursday>>,
     <<<<"f","r","i">>, Friday>>, <<<<"f","r","i","d","a","y">>, Friday>>,
     <<<<"s","a","t">>, Saturday>>, <<<<"s","a","t","u","r","d","a","y">>, Saturday>> >>

\* normalizeDay: days[day.toLowerCase().trim()] || day
normalizeDay(day) ==
  LET normalized == Trim(ToLowerCase(day))
      hit == {i \in 1..Len(normalizeDayTable) : normalizeDayTable[i][1] = normalized}
  IN  IF hit # {} THEN normalizeDayTable[CHOOSE i \in hit : TRUE][2] ELSE day

(***************************************************************************)
(* Dates (DateMath of the scraper).                                        *)
(***************************************************************************)
\* The instants new Date() may give: a UTC calendar day and the offset of the
\* local calendar day from it.
References == [utcDay : 0..MaxRefDay, tzShift : {-1, 0, 1}]

\* Date.prototype.getDay: the weekday of the local calendar day, 0 = Sunday
getDay(d) == (d.utcDay + d.tzShift) % 7

\* date.toISOString().split('T')[0]: the UTC calendar day
toISODate(d) == d.utcDay

\* date.setDate(date.getDate() + n): the same local time of day, n days later
\* (the offset of the local day from the UTC day is taken to stay the same)
addDays(d, n) == [d EXCEPT !.utcDay = @ + n]

\* getDateForDay(dayName, reference); Array.prototype.indexOf is 0-based, -1 if absent
getDateForDay(name, ref) ==
  LET currentDay == getDay(ref)
      targetDay == IndexOf(days, normalizeDay(name)) - 1
  IN  IF targetDay = -1 THEN toISODate(ref)
      ELSE LET diff == targetDay - currentDay
           IN  toISODate(addDays(ref, diff))

(***************************************************************************)
(* The Fallback Dataset.  Each row is an AnimeData without its image and   *)
(* genre (no modelled operation reads them); date is filled in by          *)
(* getFallbackSchedule.                                                    *)
(***************************************************************************)
FallbackRows ==
  << [title |-> <<"D","e","m","o","n"," ","S","l","a","y","e","r",":"," ","K","i","m","e","t","s","u"," ","n","o"," ","Y","a","i","b","a"," ","-"," ","I","n","f","i","n","i","t","y"," ","C","a","s","t","l","e">>,
      day |-> Thursday, time |-> <<"1","9",":","1","1">>, episode |-> <<"M","o","v","i","e">>, trending |-> TRUE],
     [title |-> <<"T","h","i","s"," ","M","o","n","s","t","e","r"," ","W","a","n","t","s"," ","t","o"," ","E","a","t"," ","M","e">>,
      day |-> Thursday, time |-> <<"R","e","l","e","a","s","e","d">>, episode |-> <<"1","3">>, trending |-> FALSE],
     [title |-> <<"S","o"," ","Y","o","u","'","r","e"," ","R","a","i","s","i","n","g"," ","a"," ","W","a","r","r","i","o","r">>,
      day |-> Friday, time |-> <<"0","3",":","0","0">>, episode |-> <<"1","1">>, trending |-> FALSE],
     [title |-> <<"T","o","u","g","e","n"," ","A","n","k","i">>,
      day |-> Friday, time |-> <<"1","5",":","4","0">>, episode |-> <<"2","4">>, trending |-> TRUE],
     [title |-> <<"G","a","n","g","l","i","o","n">>,
      day |-> Friday, time |-> <<"1","6",":","5","0">>, episode |-> <<"1","3">>, trending |-> FALSE],
     [title |-> <<"S","p","y"," ","x"," ","F","a","m","i","l","y"," ","S","e","a","s","o","n"," ","3">>,
      day |-> Saturday, time |-> <<"1","5",":","1","5">>, episode |-> <<"1","3">>, trending |-> TRUE],
     [title |-> <<"T","o"," ","Y","o","u","r"," ","E","t","e","r","n","i","t","y"," ","S","e","a","s","o","n"," ","3">>,
      day |-> Saturday, time |-> <<"1","6",":","0","0">>, episode |-> <<"1","3">>, trending |-> TRUE],
     [title |-> <<"K","i","n","g","d","o","m",":"," ","S","e","a","s","o","n"," ","6">>,
      day |-> Saturday, time |-> <<"1","8",":","5","8">>, episode |-> <<"1","3">>, trending |-> FALSE],
     [title |-> <<"O","n","e"," ","P","i","e","c","e">>,
      day |-> Sunday, time |-> <<"1","6",":","0","5">>, episode |-> <<"1","1","5","5">>, trending |-> TRUE],
     [title |-> <<"O","n","e","-","P","u","n","c","h"," ","M","a","n"," ","S","e","a","s","o","n"," ","3">>,
      day |-> Sunday, time |-> <<"1","6",":","2","5">>, episode |-> <<"1","2">>, trending |-> TRUE],
     [title |-> <<"A"," ","M","a","n","g","a","k","a","'","s"," ","W","e","i","r","d","l","y"," ","W","o","n","d","e","r","f","u","l"," ","W","o","r","k","p","l","a","c","e">>,
      day |-> Monday, time |-> <<"1","3",":","1","0">>, episode |-> <<"1","3">>, trending |-> FALSE],
     [title |-> <<"P","l","u","s","-","s","i","z","e","d"," ","M","i","s","a","d","v","e","n","t","u","r","e","s"," ","i","n"," ","L","o","v","e","!">>,
      day |-> Monday, time |-> <<"1","5",":","1","0">>, episode |-> <<"1","3">>, trending |-> FALSE],
     [title |-> <<"C","h","i","t","o","s","e"," ","I","s"," ","i","n"," ","t","h","e"," ","R","a","m","u","n","e"," ","B","o","t","t","l","e">>,
      day |-> Tuesday, time |-> <<"1","6",":","4","0">>, episode |-> <<"1","0">>, trending |-> FALSE],
     [title |-> <<"N","i","n","j","a"," ","v","s","."," ","G","o","k","u","d","o">>,
      day |-> Tuesday, time |-> <<"1","7",":","5","5">>, episode |-> <<"1","3">>, trending |-> FALSE],
     [title |-> <<"T","h","e"," ","B","l","u","e"," ","O","r","c","h","e","s","t","r","a"," ","S","e","a","s","o","n"," ","2">>,
      day |-> Tuesday, time |-> <<"2","1",":","5","0">>, episode |-> <<"1","3">>, trending |-> TRUE],
     [title |-> <<"F","o","r","g","e","t"," ","T","h","a","t"," ","N","i","g","h","t",","," ","Y","o","u","r"," ","M","a","j","e","s","t","y">>,
      day |-> Wednesday, time |-> <<"1","3",":","0","1">>, episode |-> <<"1","3">>, trending |-> FALSE],
     [title |-> <<"M","o","n","s","t","e","r"," ","S","t","r","i","k","e",":"," ","D","e","a","d","v","e","r","s","e"," ","R","e","l","o","a","d","e","d">>,
      day |-> Wednesday, time |-> <<"1","4",":","4","4">>, episode |-> <<"5">>, trending |-> FALSE] >>

\* getFallbackSchedule(): the rows, each dated by getDateForDay(day, today)
getFallbackSchedule(today) ==
  [i \in 1..Len(FallbackRows) |->
     [title    |-> FallbackRows[i].title,
      day      |-> FallbackRows[i].day,
      time     |-> FallbackRows[i].time,
      episode  |-> FallbackRows[i].episode,
      date     |-> getDateForDay(FallbackRows[i].day, today),
      trending |-> FallbackRows[i].trending]]

(***************************************************************************)
(* scrapeAniwatch: the retry loop over the proxy transports.               *)
(***************************************************************************)
CORS_PROXIES == <<"https://api.allorigins.win/raw?url=",
                  "https://corsproxy.io/?",
                  "https://api.codetabs.com/v1/proxy?quest=",
                  "https://thingproxy.freeboard.io/fetch/">>
MAX_RETRIES == 3
INITIAL_DELAY == 1000
\* html.length < 1000: 'Response too short, likely blocked'
MIN_HTML_LENGTH == 1000

RECURSIVE Pow2(_)
Pow2(n) == IF n = 0 THEN 1 ELSE 2 * Pow2(n - 1)

\* getBackoffDelay = baseDelay * Math.pow(2, attempt)
getBackoffDelay(a, baseDelay) == baseDelay * Pow2(a)

ShowX == <<"S","h","o","w"," ","X">>
Ep5 == <<"5">>
T2000 == <<"2","0",":","0","0">>

\* What parseAniwatchHTML can return for a response body: nothing, one entry,
\* or a page that lists exactly the shows of the Fallback Dataset.
ParsedPages(today) ==
  { <<>>,
    << [title |-> ShowX, day |-> Friday, time |-> T2000, episode |-> Ep5,
        date |-> getDateForDay(Friday, today), trending |-> FALSE] >>,
    getFallbackSchedule(today) }

\* What one `await fetch(...)` followed by `await response.text()` can give:
\* the abort of the 15 s timer, a network error, or a response.
FetchOutcomes(today) ==
  { [kind |-> k, status |-> 0, htmlLength |-> 0, parsed |-> <<>>] :
      k \in {"abort", "network"} }
  \cup
  [kind : {"response"}, status : {200, 503}, htmlLength : {0, 999, 1000},
   parsed : ParsedPages(today)]

\* The values above for every instant of the model, computed once.
FallbackAt == [r \in References |-> getFallbackSchedule(r)]
FetchOutcomesAt == [r \in References |-> FetchOutcomes(r)]

\* A status check that passes every response.
ResponseOk_AnyStatus(status) == status >= 0

\* response.ok
ResponseOk(status) == status >= 200 /\ status <= 299

\* A success check that lets an empty extraction through.
ParsedAccepted_AcceptsEmpty(parsed) == Len(parsed) >= 0

\* if (parsed.length > 0) return parsed
ParsedAccepted(parsed) == Len(parsed) > 0

\* The body of the try block: "ok" when it reaches `return parsed`, otherwise
\* the reason of the error it throws (or fetch rejects with).
TryBlock(f) ==
  IF f.kind = "abort" THEN "timeout"
  ELSE IF f.kind = "network" THEN "network"
  ELSE IF ~ResponseOk(f.status) THEN "http_status"
  ELSE IF f.htmlLength = 0 \/ f.htmlLength < MIN_HTML_LENGTH THEN "too_short"
  ELSE IF ParsedAccepted(f.parsed) THEN "ok"
  ELSE "no_data"

\* An inner loop that runs one attempt too many.
InnerLoopContinues_OffByOne(a) == a <= MAX_RETRIES

\* attempt < MAX_RETRIES: the condition of the inner for
InnerLoopContinues(a) == a < MAX_RETRIES

\* A catch block that sleeps after every failed attempt.
CatchSleeps_Always(a) == a <= MAX_RETRIES - 1

\* if (attempt < MAX_RETRIES - 1): whether the catch block sleeps
CatchSleeps(a) == a < MAX_RETRIES - 1

\* The two for statements, entered with proxy p and attempt counter a: the next
\* iteration to run, or the fall through to line 80 when the proxies are used up.
LoopStep(p, a) ==
  IF p < Len(CORS_PROXIES) /\ InnerLoopContinues(a)
    THEN [pc |-> "try", proxyIndex |-> p, attempt |-> a]
  ELSE IF p + 1 < Len(CORS_PROXIES) /\ InnerLoopContinues(0)
    THEN [pc |-> "try", proxyIndex |-> p + 1, attempt |-> 0]
  ELSE [pc |-> "fallback", proxyIndex |-> p + 1, attempt |-> a]

\* The promise resolves with `value`, produced by the return statement `from`.
Resolve(value, from) ==
  /\ spc' = "returned"
  /\ returned' = value
  /\ origin' = from
  /\ observations' = observations \cup {[origin |-> from, value |-> value]}

\* Control moves on to the loop position `step` (or falls through to the
\* `return this.getFallbackSchedule()` of line 81).
Continue(step) ==
  /\ proxyIndex' = step.proxyIndex
  /\ attempt' = step.attempt
  /\ IF step.pc = "fallback"
       THEN Resolve(FallbackAt[now], "fallback")
       ELSE /\ spc' = "try"
            /\ UNCHANGED <<returned, origin, observations>>

\* A caller invokes scraper.scrapeAniwatch().
StartScrape ==
  /\ spc \in {"idle", "returned"}
  /\ attempts' = 0
  /\ totalSleep' = 0
  /\ lastError' = "none"
  /\ returned' = <<>>
  /\ origin' = "none"
  /\ LET step == LoopStep(0, 0)
     IN  /\ proxyIndex' = step.proxyIndex
         /\ attempt' = step.attempt
         /\ spc' = "try"
  /\ UNCHANGED <<now, observations, dateVars, diffVars, forecastVars, restVars>>

\* One iteration of the inner loop up to its first await that suspends for
\* good: the fetch, the checks of the try block, and on failure the catch
\* block up to `await sleep(delay)`.
Attempt ==
  /\ spc = "try"
  /\ \E f \in FetchOutcomesAt[now] :
       LET outcome == TryBlock(f)
       IN  /\ attempts' = attempts + 1
           /\ IF outcome = "ok"
                THEN /\ Resolve(f.parsed, "live")
                     /\ UNCHANGED <<proxyIndex, attempt, lastError>>
                ELSE /\ lastError' = outcome
                     /\ IF CatchSleeps(attempt)
                          THEN /\ spc' = "sleep"
                               /\ UNCHANGED <<proxyIndex, attempt, returned,
                                              origin, observations>>
                          ELSE Continue(LoopStep(proxyIndex, attempt + 1))
  /\ UNCHANGED <<totalSleep, now, dateVars, diffVars, forecastVars, restVars>>

\* await sleep(delay) ends; attempt++ and the next iteration starts.
Sleep ==
  /\ spc = "sleep"
  /\ totalSleep' = totalSleep + getBackoffDelay(attempt, INITIAL_DELAY)
  /\ Continue(LoopStep(proxyIndex, attempt + 1))
  /\ UNCHANGED <<attempts, lastError, now, dateVars, diffVars, forecastVars, restVars>>

\* The parts of the state a specification does not exercise stay as follows.
DateIdle ==
  /\ dpc = "idle"
  /\ dayName = <<>>
  /\ reference = [utcDay |-> 0, tzShift |-> 0]
  /\ dateResult = 0

DiffIdle ==
  /\ cpc = "idle"
  /\ todayScrape = <<>>
  /\ yesterdayScrape = <<>>
  /\ changes = <<>>

ForecastIdle ==
  /\ schedules = <<>>
  /\ clock = 0
  /\ ops = 0
  /\ lastCall = <<>>

\* null, as getScrape returns it and as yesterdayData holds it
Null == [date |-> -1, anime |-> <<>>, scrapedAt |-> -1]

CycleIdle ==
  /\ scrapes = <<>>
  /\ rpc = "idle"
  /\ yesterdayStr = -1
  /\ yesterdayData = Null
  /\ todayStr = -1
  /\ scrapedData = <<>>
  /\ loopIndex = 0
  /\ animeSchedule = <<>>
  /\ scheduleChanges = <<>>
  /\ uiError = "none"
  /\ toast = "none"
  /\ cycles = 0
  /\ ran = <<>>
  /\ failedAt = 0
  /\ scrapesAtStart = <<>>
  /\ firstStored = <<>>

ParseIdle ==
  /\ ppc = "idle"
  /\ document = <<>>
  /\ parseToday = [utcDay |-> 0, tzShift |-> 0]
  /\ extracted = <<>>

\* Nothing received (yet): no status, no body.
NoResponse == [status |-> 0, htmlLength |-> 0, parsed |-> <<>>]

FetchIdle ==
  /\ timer = "none"
  /\ response = NoResponse

IdIdle ==
  /\ ipc = "idle"
  /\ idInput = <<>>
  /\ idOutput = <<>>

TaskIdle ==
  /\ tasks = <<>>
  /\ atStart = <<>>

RestIdle == CycleIdle /\ ParseIdle /\ FetchIdle /\ IdIdle /\ TaskIdle

\* The instants at which the modelled runs happen: one UTC day, every offset of
\* the local day (the loop itself never reads the clock; only the dates of
\* the returned entries depend on it).
ScrapeInstants == {r \in References : r.utcDay = 0}

InitScrape ==
  /\ spc = "idle"
  /\ proxyIndex = 0
  /\ attempt = 0
  /\ attempts = 0
  /\ totalSleep = 0
  /\ lastError = "none"
  /\ returned = <<>>
  /\ origin = "none"
  /\ now \in ScrapeInstants
  /\ observations = {}
  /\ DateIdle
  /\ DiffIdle
  /\ ForecastIdle
  /\ RestIdle

NextScrape == StartScrape \/ Attempt \/ Sleep

SpecScrape == InitScrape /\ [][NextScrape]_vars

(***************************************************************************)
(* getDateForDay applied to one input.                                     *)
(***************************************************************************)
Mon == <<"M","o","n">>
FRIDAY_padded == <<" ","F","R","I","D","A","Y"," ">>
Funday == <<"F","u","n","d","a","y">>

\* The day names handed to getDateForDay: the seven canonical names, an
\* abbreviation, a padded upper-case header, "Unknown" and an unrecognised text.
DayNameInputs ==
  {days[i] : i \in 1..Len(days)} \cup {Mon, FRIDAY_padded, Unknown, Funday}

ScrapeIdle ==
  /\ spc = "idle"
  /\ proxyIndex = 0
  /\ attempt = 0
  /\ attempts = 0
  /\ totalSleep = 0
  /\ lastError = "none"
  /\ returned = <<>>
  /\ origin = "none"
  /\ now = [utcDay |-> 0, tzShift |-> 0]
  /\ observations = {}

InitDate ==
  /\ dpc = "input"
  /\ dayName \in DayNameInputs
  /\ reference \in References
  /\ dateResult = 0
  /\ ScrapeIdle
  /\ DiffIdle
  /\ ForecastIdle
  /\ RestIdle

\* this.getDateForDay(dayName, reference)
CallGetDateForDay ==
  /\ dpc = "input"
  /\ dateResult' = getDateForDay(dayName, reference)
  /\ dpc' = "done"
  /\ UNCHANGED <<dayName, reference, scrapeVars, diffVars, forecastVars, restVars>>

NextDate == CallGetDateForDay

SpecDate == InitDate /\ [][NextDate]_vars

(***************************************************************************)
(* Claims about scrapeAniwatch (checked under SpecScrape).                 *)
(***************************************************************************)
\* The number of attempts of the current run that have failed.
Failures == IF origin = "live" THEN attempts - 1 ELSE attempts

\* C3: in any run scrapeAniwatch makes at most transports x MAX_RETRIES fetch
\* attempts, and the backoff sleeps of the run add up to at most
\* transports x baseDelay x (2^MAX_RETRIES - 1) milliseconds.
C3_RetryBound ==
  /\ attempts <= Len(CORS_PROXIES) * MAX_RETRIES
  /\ totalSleep <= Len(CORS_PROXIES) * INITIAL_DELAY * (Pow2(MAX_RETRIES) - 1)

\* A run in which every attempt on every transport failed: 12 attempts made,
\* the backoff sleeps slept, and the fallback returned.
C3_Witness ==
  /\ spc = "returned"
  /\ origin = "fallback"
  /\ attempts = Len(CORS_PROXIES) * MAX_RETRIES
  /\ totalSleep = Len(CORS_PROXIES) * (getBackoffDelay(0, INITIAL_DELAY)
                                        + getBackoffDelay(1, INITIAL_DELAY))

\* C4: scrapeAniwatch never resolves with an empty list, whatever the attempt
\* outcomes; when every attempt on every transport has failed (timeout,
\* network error, non-2xx status, short body or zero entries) the run has not
\* rejected but resolved with exactly the entries of the Fallback Dataset,
\* which is not empty; and the fallback is returned in no other case.
C4_ExhaustionIsNotAnError ==
  /\ spc = "returned" => Len(returned) > 0
  /\ (spc # "idle" /\ Failures = Len(CORS_PROXIES) * MAX_RETRIES)
       => /\ spc = "returned"
          /\ origin = "fallback"
          /\ returned = FallbackAt[now]
          /\ Len(returned) > 0
  /\ (spc = "returned" /\ origin = "fallback")
       => Failures = Len(CORS_PROXIES) * MAX_RETRIES

\* Every attempt failed, the last one because the page parsed to no entry.
C4_Witness ==
  /\ spc = "returned"
  /\ origin = "fallback"
  /\ lastError = "no_data"
  /\ Failures = Len(CORS_PROXIES) * MAX_RETRIES

C6_NextOccurrence ==
  (dpc = "done" /\ IndexOf(days, dayName) # 0)
    => LET D == toISODate(reference)
           W == IndexOf(days, dayName) - 1
       IN  /\ dateResult >= D
           /\ dateResult % 7 = W
           /\ dateResult - D <= 6
           /\ (D % 7 = W => dateResult = D)

(***************************************************************************)
(* detectChanges (AnimeAutoScheduler).  An entry carries the fields the    *)
(* comparison reads: title, day, time, episode.  A ScheduleChange carries  *)
(* type, anime, oldValue and newValue; `details` (a text built from the    *)
(* same values) and `detectedAt` (one timestamp for the whole batch) are   *)
(* left out.                                                               *)
(***************************************************************************)
\* A field the code leaves undefined.
Undefined == <<"undefined">>

\* A JavaScript Map as the sequence of its <<key, value>> pairs in insertion
\* order: set on a present key replaces the value and keeps the position.
MapHas(m, k) == \E i \in 1..Len(m) : m[i][1] = k
MapGet(m, k) == m[CHOOSE i \in 1..Len(m) : m[i][1] = k][2]
MapSet(m, k, v) ==
  IF MapHas(m, k)
  THEN [i \in 1..Len(m) |-> IF m[i][1] = k THEN <<k, v>> ELSE m[i]]
  ELSE Append(m, <<k, v>>)
MapDelete(m, k) == SelectSeq(m, LAMBDA p : p[1] # k)

\* yesterdayScrape.forEach(anime => yesterdayMap.set(anime.title.toLowerCase(), anime))
RECURSIVE BuildYesterdayMap(_, _, _)
BuildYesterdayMap(list, i, m) ==
  IF i > Len(list) THEN m
  ELSE BuildYesterdayMap(list, i + 1,
                         MapSet(m, ToLowerCase(list[i].title), list[i]))

Change(type, anime, old, new) ==
  [type |-> type, anime |-> anime, oldValue |-> old, newValue |-> new]

\* The three comparisons with the episode comparison made first.
FieldChanges_EpisodeFirst(t, y) ==
  (IF t.episode # y.episode
     THEN <<Change("episode_update", t.title, y.episode, t.episode)>> ELSE <<>>)
  \o (IF t.time # y.time
        THEN <<Change("time_change", t.title, y.time, t.time)>> ELSE <<>>)
  \o (IF t.day # y.day
        THEN <<Change("delay", t.title, y.day, t.day)>> ELSE <<>>)

\* The three comparisons of one matched entry (lines 151-185), in code order.
FieldChanges(t, y) ==
  (IF t.time # y.time
     THEN <<Change("time_change", t.title, y.time, t.time)>> ELSE <<>>)
  \o (IF t.day # y.day
        THEN <<Change("delay", t.title, y.day, t.day)>> ELSE <<>>)
  \o (IF t.episode # y.episode
        THEN <<Change("episode_update", t.title, y.episode, t.episode)>>
        ELSE <<>>)

\* for (const [, anime] of yesterdayMap) changes.push({type: 'cancellation', ...})
Cancellations(m) ==
  [i \in 1..Len(m) |-> Change("cancellation", m[i][2].title, Undefined, Undefined)]

\* for (const today of todayScrape) { ... }, then the cancellations
RECURSIVE DetectLoop(_, _, _, _)
DetectLoop(list, i, m, acc) ==
  IF i > Len(list) THEN acc \o Cancellations(m)
  ELSE LET t == list[i]
           key == ToLowerCase(t.title)
       IN  IF ~MapHas(m, key)
             THEN DetectLoop(list, i + 1, m,
                             Append(acc, Change("new", t.title, Undefined, Undefined)))
             ELSE DetectLoop(list, i + 1, MapDelete(m, key),
                             acc \o FieldChanges(t, MapGet(m, key)))

detectChanges(current, previous) ==
  DetectLoop(current, 1, BuildYesterdayMap(previous, 1, <<>>), <<>>)

\* Snapshots hold at most MaxLen entries.
MaxLen == 2

show_x == <<"s","h","o","w"," ","x">>
ShowY == <<"S","h","o","w"," ","Y">>
Ep1 == <<"1">>
Ep6 == <<"6">>
T2100 == <<"2","1",":","0","0">>
T1000 == <<"1","0",":","0","0">>

\* The entries snapshots are made of: "Show X" with nothing, one field or every
\* field changed, the same title in another letter case, and a second show.
DiffEntries ==
  { [title |-> ShowX,  day |-> Friday, time |-> T2000, episode |-> Ep5],
    [title |-> ShowX,  day |-> Friday, time |-> T2100, episode |-> Ep5],
    [title |-> ShowX,  day |-> Monday, time |-> T2000, episode |-> Ep5],
    [title |-> ShowX,  day |-> Friday, time |-> T2000, episode |-> Ep6],
    [title |-> ShowX,  day |-> Monday, time |-> T2100, episode |-> Ep6],
    [title |-> show_x, day |-> Friday, time |-> T2000, episode |-> Ep5],
    [title |-> ShowY,  day |-> Monday, time |-> T1000, episode |-> Ep1] }

Snapshots == UNION {[1..k -> DiffEntries] : k \in 0..MaxLen}

InitDiff ==
  /\ cpc = "input"
  /\ todayScrape \in Snapshots
  /\ yesterdayScrape \in Snapshots
  /\ changes = <<>>
  /\ ScrapeIdle
  /\ DateIdle
  /\ ForecastIdle
  /\ RestIdle

\* autoScheduler.detectChanges(todayScrape, yesterdayScrape)
CallDetectChanges ==
  /\ cpc = "input"
  /\ changes' = detectChanges(todayScrape, yesterdayScrape)
  /\ cpc' = "done"
  /\ UNCHANGED <<todayScrape, yesterdayScrape, scrapeVars, dateVars, forecastVars, restVars>>

NextDiff == CallDetectChanges

SpecDiff == InitDiff /\ [][NextDiff]_vars

(***************************************************************************)
(* Claims about detectChanges (checked under SpecDiff).                    *)
(***************************************************************************)
\* The lowercased titles of a snapshot.
Keys(list) == {ToLowerCase(list[i].title) : i \in 1..Len(list)}

\* How many returned records have the given type and (lowercased) title.
CountOf(type, key) ==
  Cardinality({i \in 1..Len(changes) :
                 changes[i].type = type /\ ToLowerCase(changes[i].anime) = key})

\* C1: diff completeness.  Every title (compared lowercased) in previous and
\* not in current yields exactly one 'cancellation' record, every title in
\* current and not in previous yields exactly one 'new' record, and no title
\* yields both, also when a title occurs more than once in a snapshot.
C1_DiffCompleteness ==
  cpc = "done" =>
    /\ \A k \in Keys(yesterdayScrape) \ Keys(todayScrape) :
         CountOf("cancellation", k) = 1
    /\ \A k \in Keys(todayScrape) \ Keys(yesterdayScrape) :
         CountOf("new", k) = 1
    /\ \A k \in Keys(todayScrape) \cup Keys(yesterdayScrape) :
         ~(CountOf("new", k) > 0 /\ CountOf("cancellation", k) > 0)

\* The entry of previous a lowercased title stands for in the lookup.
Previous(key) == MapGet(BuildYesterdayMap(yesterdayScrape, 1, <<>>), key)

HasRecord(type, anime, old, new) ==
  \E i \in 1..Len(changes) : changes[i] = Change(type, anime, old, new)

\* C2: for every entry of current whose lowercased title is found in previous
\* there is a time_change record iff airTime differs, a day_change record iff
\* dayOfWeek differs and an episode_update record iff episodeLabel differs,
\* each carrying the previous and the new value; an entry whose three fields
\* are equal yields no record; and every record's kind is one of new,
\* time_change, day_change, episode_update, cancellation.
C2_FieldChangeRecords ==
  cpc = "done" =>
    /\ \A i \in 1..Len(todayScrape) :
         LET t == todayScrape[i]
             key == ToLowerCase(t.title)
         IN  key \in Keys(yesterdayScrape) =>
               LET y == Previous(key)
               IN  /\ HasRecord("time_change", t.title, y.time, t.time)
                        <=> t.time # y.time
                   /\ HasRecord("day_change", t.title, y.day, t.day)
                        <=> t.day # y.day
                   /\ HasRecord("episode_update", t.title, y.episode, t.episode)
                        <=> t.episode # y.episode
                   /\ (t.time = y.time /\ t.day = y.day /\ t.episode = y.episode)
                        => \A n \in 1..Len(changes) : changes[n].anime # t.title
    /\ \A n \in 1..Len(changes) :
         changes[n].type \in {"new", "time_change", "day_change",
                              "episode_update", "cancellation"}

(***************************************************************************)
(* The Episode Forecaster (AnimeAutoScheduler) and the 'schedules'         *)
(* collection behind firestoreHelpers.  An entry handed to the forecaster  *)
(* carries title, day, time, episode and the optional totalEpisodes: <<>>  *)
(* when the entry has none (undefined), <<n>> when it carries the number n *)
(* (the enrichment's num_episodes).                                        *)
(***************************************************************************)
\* The digits of s from position i on, read as a decimal number continuing acc.
RECURSIVE DigitsFrom(_, _, _)
DigitsFrom(s, i, acc) ==
  IF i <= Len(s) /\ IndexOf(Digits, s[i]) # 0
    THEN DigitsFrom(s, i + 1, acc * 10 + (IndexOf(Digits, s[i]) - 1))
    ELSE acc

\* The text without its leading white space.
TrimStart(s) ==
  LET keep == {i \in 1..Len(s) : s[i] \notin WhiteSpace}
  IN  IF keep = {} THEN <<>>
      ELSE SubSeq(s, CHOOSE i \in keep : \A j \in keep : i <= j, Len(s))

\* parseInt(text): leading white space, an optional sign, then the longest
\* run of decimal digits; NaN when there is no digit there.
parseInt(text) ==
  LET t == TrimStart(text)
      signed == Len(t) > 0 /\ t[1] \in {"-", "+"}
      first == IF signed THEN 2 ELSE 1
      magnitude == DigitsFrom(t, first, 0)
  IN  IF first > Len(t) \/ IndexOf(Digits, t[first]) = 0
        THEN [nan |-> TRUE, value |-> 0]
        ELSE [nan |-> FALSE,
              value |-> IF signed /\ t[1] = "-" THEN 0 - magnitude ELSE magnitude]

\* const currentEpisode = parseInt(anime.episode) || 1
currentEpisodeOf(anime) ==
  LET n == parseInt(anime.episode)
  IN  IF n.nan \/ n.value = 0 THEN 1 ELSE n.value

longRunning ==
  << <<"o","n","e"," ","p","i","e","c","e">>,
     <<"b","o","r","u","t","o">>,
     <<"d","r","a","g","o","n"," ","b","a","l","l">>,
     <<"d","e","t","e","c","t","i","v","e"," ","c","o","n","a","n">>,
     <<"c","a","s","e"," ","c","l","o","s","e","d">>,
     <<"p","o","k","e","m","o","n">>,
     <<"n","a","r","u","t","o">>,
     <<"b","l","e","a","c","h">>,
     <<"f","a","i","r","y"," ","t","a","i","l">>,
     <<"b","l","a","c","k"," ","c","l","o","v","e","r">> >>
twoCour ==
  << <<"k","i","n","g","d","o","m">>,
     <<"f","r","i","e","r","e","n">>,
     <<"m","u","s","h","o","k","u"," ","t","e","n","s","e","i">> >>

\* list.some(x => title.toLowerCase().includes(x))
SomeIncluded(list, title) ==
  \E i \in 1..Len(list) : Includes(ToLowerCase(title), list[i])

Max(a, b) == IF a >= b THEN a ELSE b

\* A classification that knows no two-cour titles.
estimateTotalEpisodes_NoTwoCour(title, currentEpisode) ==
  IF SomeIncluded(longRunning, title) THEN currentEpisode + 52
  ELSE Max(12, currentEpisode)

\* A classification that tries the two-cour list first.
estimateTotalEpisodes_TwoCourFirst(title, currentEpisode) ==
  IF SomeIncluded(twoCour, title) THEN Max(24, currentEpisode)
  ELSE IF SomeIncluded(longRunning, title) THEN currentEpisode + 52
  ELSE Max(12, currentEpisode)

estimateTotalEpisodes(title, currentEpisode) ==
  IF SomeIncluded(longRunning, title) THEN currentEpisode + 52
  ELSE IF SomeIncluded(twoCour, title) THEN Max(24, currentEpisode)
  ELSE Max(12, currentEpisode)

\* const totalEpisodes = anime.totalEpisodes || await this.estimateTotalEpisodes(...)
\* (undefined and 0 are both falsy)
totalEpisodesOf(anime) ==
  IF anime.totalEpisodes # <<>> /\ anime.totalEpisodes[1] # 0
    THEN anime.totalEpisodes[1]
  ELSE estimateTotalEpisodes(anime.title, currentEpisodeOf(anime))

\* this.dayToNumber[dayOfWeek] ?? 0
dayToNumber(dayOfWeek) ==
  IF IndexOf(days, dayOfWeek) # 0 THEN IndexOf(days, dayOfWeek) - 1 ELSE 0

\* A date computation that adds the week count as days.
calculateFutureDate_WeeksAsDays(dayOfWeek, weeksFromNow, todayDay) ==
  LET d == dayToNumber(dayOfWeek) - (todayDay % 7)
  IN  todayDay + (IF d <= 0 THEN d + 7 ELSE d) + (weeksFromNow - 1)

\* A date computation that never moves to the following week.
calculateFutureDate_NoWrap(dayOfWeek, weeksFromNow, todayDay) ==
  todayDay + (dayToNumber(dayOfWeek) - (todayDay % 7)) + (weeksFromNow - 1) * 7

\* A date computation that adds weeksFromNow whole weeks.
calculateFutureDate_WholeWeeks(dayOfWeek, weeksFromNow, todayDay) ==
  LET d == dayToNumber(dayOfWeek) - (todayDay % 7)
  IN  todayDay + (IF d <= 0 THEN d + 7 ELSE d) + weeksFromNow * 7

\* calculateFutureDate(dayOfWeek, weeksFromNow), today being local day todayDay:
\* the day number that format(futureDate, 'yyyy-MM-dd') prints
calculateFutureDate(dayOfWeek, weeksFromNow, todayDay) ==
  LET targetDayNum == dayToNumber(dayOfWeek)
      currentDayNum == todayDay % 7
      diff == targetDayNum - currentDayNum
      daysUntilTarget == IF diff <= 0 THEN diff + 7 ELSE diff
  IN  todayDay + daysUntilTarget + (weeksFromNow - 1) * 7

\* A loop condition that stops one episode early.
ScheduleLoopContinues_StopsEarly(ep, totalEpisodes) == ep < totalEpisodes

\* ep <= totalEpisodes: the condition of the for of autoScheduleEpisodes
ScheduleLoopContinues(ep, totalEpisodes) == ep <= totalEpisodes

\* for (let ep = currentEpisode + 1; ep <= totalEpisodes; ep++) { ...push... }
\* The loop has no await: every calculateFutureDate call of one run reads the
\* same local day todayDay from new Date().
RECURSIVE ScheduleLoop(_, _, _, _, _, _)
ScheduleLoop(anime, ep, currentEpisode, totalEpisodes, todayDay, futureSchedule) ==
  IF ~ScheduleLoopContinues(ep, totalEpisodes) THEN futureSchedule
  ELSE LET weeksFromNow == ep - currentEpisode
           episodeDate == calculateFutureDate(anime.day, weeksFromNow, todayDay)
       IN  ScheduleLoop(anime, ep + 1, currentEpisode, totalEpisodes, todayDay,
                        Append(futureSchedule,
                               [episode   |-> ep,
                                date      |-> episodeDate,
                                airTime   |-> anime.time,
                                confirmed |-> FALSE]))

\* The futureSchedule autoScheduleEpisodes builds (lines 34-52).
futureScheduleOf(anime, todayDay) ==
  ScheduleLoop(anime, currentEpisodeOf(anime) + 1, currentEpisodeOf(anime),
               totalEpisodesOf(anime), todayDay, <<>>)

\* An id in which a run of replaced characters gives one separator.
animeIdOf_CollapsesRuns(title) ==
  LET lower == ToLowerCase(title)
      kept(i) == IndexOf(LowerCase, lower[i]) # 0 \/ IndexOf(Digits, lower[i]) # 0
      stays == {i \in 1..Len(lower) : kept(i) \/ i = 1 \/ kept(i - 1)}
      nth(k) == CHOOSE i \in stays : Cardinality({j \in stays : j <= i}) = k
  IN  [k \in 1..Cardinality(stays) |-> IF kept(nth(k)) THEN lower[nth(k)] ELSE "-"]

\* anime.title.toLowerCase().replace(/[^a-z0-9]/g, '-')
animeIdOf(title) ==
  LET lower == ToLowerCase(title)
  IN  [i \in 1..Len(lower) |->
         IF IndexOf(LowerCase, lower[i]) # 0 \/ IndexOf(Digits, lower[i]) # 0
           THEN lower[i] ELSE "-"]

\* The document saveScheduleToFirestore hands to saveSchedule.
scheduleOf(anime, todayDay) ==
  [animeId        |-> animeIdOf(anime.title),
   title          |-> anime.title,
   totalEpisodes  |-> totalEpisodesOf(anime),
   currentEpisode |-> currentEpisodeOf(anime),
   dayOfWeek      |-> anime.day,
   airTime        |-> anime.time,
   timezone       |-> "JST",
   autoScheduled  |-> TRUE,
   nextEpisodes   |-> futureScheduleOf(anime, todayDay)]

\* A save that creates a document but never replaces a stored one.
saveSchedule_KeepsStored(store, schedule, stamp) ==
  [id \in DOMAIN store \cup {schedule.animeId} |->
     IF id \in DOMAIN store
       THEN store[id]
       ELSE [animeId        |-> schedule.animeId,
             title          |-> schedule.title,
             totalEpisodes  |-> schedule.totalEpisodes,
             currentEpisode |-> schedule.currentEpisode,
             dayOfWeek      |-> schedule.dayOfWeek,
             airTime        |-> schedule.airTime,
             timezone       |-> schedule.timezone,
             autoScheduled  |-> schedule.autoScheduled,
             nextEpisodes   |-> schedule.nextEpisodes,
             createdAt      |-> stamp,
             updatedAt      |-> stamp]]

\* firestoreHelpers.saveSchedule: setDoc(doc(db, 'schedules', schedule.animeId),
\* {...schedule, createdAt: Timestamp.now(), updatedAt: Timestamp.now()});
\* timestamps are kept to the day.
saveSchedule(store, schedule, stamp) ==
  [id \in DOMAIN store \cup {schedule.animeId} |->
     IF id = schedule.animeId
       THEN [animeId        |-> schedule.animeId,
             title          |-> schedule.title,
             totalEpisodes  |-> schedule.totalEpisodes,
             currentEpisode |-> schedule.currentEpisode,
             dayOfWeek      |-> schedule.dayOfWeek,
             airTime        |-> schedule.airTime,
             timezone       |-> schedule.timezone,
             autoScheduled  |-> schedule.autoScheduled,
             nextEpisodes   |-> schedule.nextEpisodes,
             createdAt      |-> stamp,
             updatedAt      |-> stamp]
       ELSE store[id]]

\* A filter that keeps the episode that has just aired.
StillFuture_KeepsAired(ep, newEpisode) == ep.episode >= newEpisode

\* schedule.nextEpisodes.filter(ep => ep.episode > newEpisode)
StillFuture(ep, newEpisode) == ep.episode > newEpisode

\* The document updateScheduleAfterAiring saves for `schedule`.
afterAiring(schedule) ==
  LET newEpisode == schedule.currentEpisode + 1
  IN  [schedule EXCEPT
         !.currentEpisode = newEpisode,
         !.nextEpisodes = SelectSeq(schedule.nextEpisodes,
                                    LAMBDA ep : StillFuture(ep, newEpisode))]

\* The document confirmEpisodeDate saves for `schedule`.
afterConfirm(schedule, episodeNumber) ==
  [schedule EXCEPT
     !.nextEpisodes =
        [i \in 1..Len(schedule.nextEpisodes) |->
           IF schedule.nextEpisodes[i].episode = episodeNumber
             THEN [schedule.nextEpisodes[i] EXCEPT !.confirmed = TRUE]
             ELSE schedule.nextEpisodes[i]]]

NoAnime == [title |-> <<>>, day |-> <<>>, time |-> <<>>, episode |-> <<>>,
            totalEpisodes |-> <<>>]

\* What lastCall shows for a document id that had no document.
NoDocument == [animeId |-> <<>>]

\* What lastCall records of a call: the method, its arguments (the entry, or
\* the document id and the episode number), how it ended ("ok", "not_found"
\* for the early return, "rejected" when saveSchedule threw), the value
\* autoScheduleEpisodes returned, and the document the collection held under
\* the id when the call was made.
Call(op, anime, id, n, outcome, ret) ==
  [op |-> op, anime |-> anime, id |-> id, n |-> n, outcome |-> outcome, ret |-> ret,
   before |-> IF id \in DOMAIN schedules THEN schedules[id] ELSE NoDocument]

\* The forecaster makes at most MaxOps calls (clock ticks included).
MaxOps == 3

\* autoScheduler.autoScheduleEpisodes(anime); saveOk: whether setDoc succeeds
autoScheduleEpisodes(anime, saveOk) ==
  /\ ops' = ops + 1
  /\ IF saveOk
       THEN /\ schedules' = saveSchedule(schedules, scheduleOf(anime, clock), clock)
            /\ lastCall' = Call("autoScheduleEpisodes", anime, animeIdOf(anime.title),
                                0, "ok", futureScheduleOf(anime, clock))
       ELSE /\ schedules' = schedules
            /\ lastCall' = Call("autoScheduleEpisodes", anime, animeIdOf(anime.title),
                                0, "rejected", <<>>)
  /\ UNCHANGED <<clock, scrapeVars, dateVars, diffVars>>

\* firestoreHelpers.getSchedules(): every document, or [] when the query fails
getSchedules(store, readOk) == IF readOk THEN store ELSE <<>>

\* autoScheduler.updateScheduleAfterAiring(animeId)
updateScheduleAfterAiring(animeId, readOk, saveOk) ==
  /\ ops' = ops + 1
  /\ LET found == getSchedules(schedules, readOk)
     IN  IF animeId \notin DOMAIN found
           THEN /\ schedules' = schedules
                /\ lastCall' = Call("updateScheduleAfterAiring", NoAnime, animeId,
                                    0, "not_found", <<>>)
         ELSE IF saveOk
           THEN /\ schedules' = saveSchedule(schedules, afterAiring(found[animeId]), clock)
                /\ lastCall' = Call("updateScheduleAfterAiring", NoAnime, animeId,
                                    0, "ok", <<>>)
         ELSE /\ schedules' = schedules
              /\ lastCall' = Call("updateScheduleAfterAiring", NoAnime, animeId,
                                  0, "rejected", <<>>)
  /\ UNCHANGED <<clock, scrapeVars, dateVars, diffVars>>

\* autoScheduler.confirmEpisodeDate(animeId, episodeNumber)
confirmEpisodeDate(animeId, episodeNumber, readOk, saveOk) ==
  /\ ops' = ops + 1
  /\ LET found == getSchedules(schedules, readOk)
     IN  IF animeId \notin DOMAIN found
           THEN /\ schedules' = schedules
                /\ lastCall' = Call("confirmEpisodeDate", NoAnime, animeId,
                                    episodeNumber, "not_found", <<>>)
         ELSE IF saveOk
           THEN /\ schedules' = saveSchedule(schedules,
                                             afterConfirm(found[animeId], episodeNumber),
                                             clock)
                /\ lastCall' = Call("confirmEpisodeDate", NoAnime, animeId,
                                    episodeNumber, "ok", <<>>)
         ELSE /\ schedules' = schedules
              /\ lastCall' = Call("confirmEpisodeDate", NoAnime, animeId,
                                  episodeNumber, "rejected", <<>>)
  /\ UNCHANGED <<clock, scrapeVars, dateVars, diffVars>>

\* Midnight passes: new Date() gives the next local day from now on.
Tick ==
  /\ ops' = ops + 1
  /\ clock' = clock + 1
  /\ lastCall' = Call("tick", NoAnime, <<>>, 0, "ok", <<>>)
  /\ UNCHANGED <<schedules, scrapeVars, dateVars, diffVars>>

(***************************************************************************)
(* The forecaster working on the store: any sequence of calls.             *)
(***************************************************************************)
Show_X == <<"S","h","o","w","-","X">>
EpNew == <<"N","e","w">>
nope == <<"n","o","p","e">>

\* The entries handed to autoScheduleEpisodes here: an enriched show with two
\* episodes left, a title with the same document id and a non-numeric label,
\* a show without enrichment (12-episode default), and an enrichment count
\* below the current episode.
StoreEntries ==
  { [title |-> ShowX,  day |-> Friday, time |-> T2000, episode |-> Ep5, totalEpisodes |-> <<7>>],
    [title |-> Show_X, day |-> Monday, time |-> T2100, episode |-> EpNew, totalEpisodes |-> <<3>>],
    [title |-> ShowY,  day |-> Monday, time |-> T1000, episode |-> Ep1, totalEpisodes |-> <<>>],
    [title |-> ShowX,  day |-> Friday, time |-> T2000, episode |-> Ep6, totalEpisodes |-> <<5>>] }

\* The document ids the two partial updates are called with.
StoreIds == {animeIdOf(e.title) : e \in StoreEntries} \cup {nope}

\* The episode numbers confirmEpisodeDate is called with for a document: the
\* current episode (not projected) and the two after it.
ConfirmNumbers(id) ==
  IF id \in DOMAIN schedules
    THEN {schedules[id].currentEpisode + k : k \in 0..2}
    ELSE {1}

\* The local days the model starts on: one whole week.
StartDays == 0..6

InitForecast ==
  /\ schedules = <<>>
  /\ clock \in StartDays
  /\ ops = 0
  /\ lastCall = Call("none", NoAnime, <<>>, 0, "ok", <<>>)
  /\ ScrapeIdle
  /\ DateIdle
  /\ DiffIdle
  /\ RestIdle

AutoSchedule ==
  /\ ops < MaxOps
  /\ \E anime \in StoreEntries : \E saveOk \in BOOLEAN :
       autoScheduleEpisodes(anime, saveOk)
  /\ UNCHANGED restVars

Advance ==
  /\ ops < MaxOps
  /\ \E id \in StoreIds : \E readOk \in BOOLEAN : \E saveOk \in BOOLEAN :
       updateScheduleAfterAiring(id, readOk, saveOk)
  /\ UNCHANGED restVars

Confirm ==
  /\ ops < MaxOps
  /\ \E id \in StoreIds : \E n \in ConfirmNumbers(id) :
       \E readOk \in BOOLEAN : \E saveOk \in BOOLEAN :
         confirmEpisodeDate(id, n, readOk, saveOk)
  /\ UNCHANGED restVars

MidnightPasses ==
  /\ ops < MaxOps
  /\ Tick
  /\ UNCHANGED restVars

NextForecast == AutoSchedule \/ Advance \/ Confirm \/ MidnightPasses

SpecForecast == InitForecast /\ [][NextForecast]_vars

(***************************************************************************)
(* autoScheduleEpisodes applied once to one entry, on an empty store.      *)
(***************************************************************************)
Kingdom == <<"K","i","n","g","d","o","m">>
OnePiece == <<"O","n","e"," ","P","i","e","c","e">>
OnePieceKingdom == <<"O","n","e"," ","P","i","e","c","e"," ","K","i","n","g","d","o","m">>
T1800 == <<"1","8",":","0","0">>
Ep3 == <<"3">>
Ep0 == <<"0">>
EpMinus2 == <<"-","2">>
Ep12abc == <<"1","2","a","b","c">>
Ep30 == <<"3","0">>

\* Titles of each bucket (and one in two buckets), weekdays and an unresolved
\* day, numeric and non-numeric episode labels, with and without enrichment.
ScheduleInputs ==
  [title : {Kingdom, OnePiece, OnePieceKingdom, ShowX},
   day : {Saturday, Monday, Unknown},
   time : {T1800},
   episode : {Ep3, EpNew, Ep0, EpMinus2, Ep12abc, Ep30},
   totalEpisodes : {<<>>, <<0>>, <<7>>}]

ScheduleOnce ==
  /\ ops = 0
  /\ \E anime \in ScheduleInputs : \E saveOk \in BOOLEAN :
       autoScheduleEpisodes(anime, saveOk)
  /\ UNCHANGED restVars

NextSchedule == ScheduleOnce

SpecSchedule == InitForecast /\ [][NextSchedule]_vars

(***************************************************************************)
(* Claims about autoScheduleEpisodes (checked under SpecSchedule).         *)
(***************************************************************************)
\* The entry of the Kingdom scenario: no enrichment episode count.
KingdomEntry ==
  [title |-> Kingdom, day |-> Saturday, time |-> T1800, episode |-> Ep3,
   totalEpisodes |-> <<>>]

\* autoScheduleEpisodes has just returned for the Kingdom entry.
KingdomReturned ==
  /\ lastCall.op = "autoScheduleEpisodes"
  /\ lastCall.outcome = "ok"
  /\ lastCall.anime = KingdomEntry

\* The first Saturday on or after the day of the call, or the one a week
\* later when the call is made on a Saturday.
IsNextSaturday(date) ==
  /\ date % 7 = 6
  /\ date >= clock
  /\ date - clock <= 7

\* C7 as stated: for the Kingdom entry autoScheduleEpisodes returns exactly 9
\* projected episodes, numbered 4 through 12, episode 4 dated at the next
\* Saturday and episode 12 exactly 8 weeks after episode 4.
C7_KingdomNineEpisodes ==
  KingdomReturned =>
    /\ Len(lastCall.ret) = 9
    /\ \A i \in 1..Len(lastCall.ret) : lastCall.ret[i].episode = 3 + i
    /\ IsNextSaturday(lastCall.ret[1].date)
    /\ \A i \in 1..Len(lastCall.ret) :
         lastCall.ret[i].episode = 12 =>
           lastCall.ret[i].date = lastCall.ret[1].date + 8 * 7

\* C7 amended: for the Kingdom entry autoScheduleEpisodes returns exactly 21
\* projected episodes, numbered 4 through 24 (the title is in the two-cour
\* list), episode 4 dated at the first Saturday strictly after the day of the
\* call and episode 12 exactly 8 weeks after episode 4.
C7_KingdomTwoCour ==
  KingdomReturned =>
    /\ Len(lastCall.ret) = 21
    /\ \A i \in 1..Len(lastCall.ret) : lastCall.ret[i].episode = 3 + i
    /\ lastCall.ret[1].date % 7 = 6
    /\ lastCall.ret[1].date > clock
    /\ lastCall.ret[1].date - clock <= 7
    /\ lastCall.ret[9].episode = 12
    /\ lastCall.ret[9].date = lastCall.ret[1].date + 8 * 7

\* The Kingdom entry scheduled on a Saturday: episode 4 is a week away.
C7_Witness ==
  /\ KingdomReturned
  /\ clock % 7 = 6
  /\ lastCall.ret[1].date = clock + 7

\* C9: autoScheduleEpisodes returns, and persists as nextEpisodes, exactly one
\* entry for each episode number from currentEpisode+1 to totalEpisodes, in
\* ascending order, each unconfirmed and with the entry's air time; the list
\* has max(0, totalEpisodes - currentEpisode) entries.
C9_ProjectedRange ==
  (lastCall.op = "autoScheduleEpisodes" /\ lastCall.outcome = "ok") =>
    LET doc == schedules[lastCall.id]
        ret == lastCall.ret
    IN  /\ doc.nextEpisodes = ret
        /\ doc.currentEpisode = currentEpisodeOf(lastCall.anime)
        /\ Len(ret) = Max(0, doc.totalEpisodes - doc.currentEpisode)
        /\ \A i \in 1..Len(ret) :
             /\ ret[i].episode = doc.currentEpisode + i
             /\ ret[i].episode > doc.currentEpisode
             /\ ret[i].episode <= doc.totalEpisodes
             /\ ret[i].confirmed = FALSE
             /\ ret[i].airTime = lastCall.anime.time

\* A long-running title: 52 entries returned and stored; and an enrichment
\* count below the current episode gives an empty list (checked by the
\* formula, reached in the same state space).
C9_Witness ==
  /\ lastCall.op = "autoScheduleEpisodes"
  /\ lastCall.outcome = "ok"
  /\ lastCall.anime.title = OnePiece
  /\ Len(lastCall.ret) = 52
  /\ schedules[lastCall.id].nextEpisodes = lastCall.ret

(***************************************************************************)
(* Claims about the stored ForecastRecord (checked under SpecForecast).    *)
(***************************************************************************)
\* C8: in every stored document, after any sequence of autoScheduleEpisodes,
\* updateScheduleAfterAiring and confirmEpisodeDate calls, nextEpisodes is
\* sorted strictly ascending by episode, consecutive entries have consecutive
\* episode numbers, and each date is exactly 7 days after the one before it.
C8_ForecastMonotonic ==
  \A id \in DOMAIN schedules :
    LET next == schedules[id].nextEpisodes
    IN  \A i \in 1..(Len(next) - 1) :
          /\ next[i + 1].episode = next[i].episode + 1
          /\ next[i + 1].date = next[i].date + 7

\* A document that was scheduled, advanced and then had an episode confirmed,
\* and still projects several episodes.
C8_Witness ==
  /\ lastCall.op = "confirmEpisodeDate"
  /\ lastCall.outcome = "ok"
  /\ lastCall.id \in DOMAIN schedules
  /\ LET doc == schedules[lastCall.id]
     IN  /\ Len(doc.nextEpisodes) >= 2
         /\ doc.nextEpisodes[1].episode = doc.currentEpisode + 1
         /\ doc.currentEpisode = 2
         /\ \E i \in 1..Len(doc.nextEpisodes) : doc.nextEpisodes[i].confirmed

\* The step is a call of updateScheduleAfterAiring that saved its document.
AdvanceSaved ==
  /\ lastCall'.op = "updateScheduleAfterAiring"
  /\ lastCall'.outcome = "ok"

\* C10: a call of updateScheduleAfterAiring on an existing document increments
\* currentEpisode by exactly one and removes exactly the projected episodes
\* whose number is at most the new currentEpisode; every remaining entry is
\* kept as it was; title, totalEpisodes, dayOfWeek and airTime are unchanged;
\* and in every state every projected episode number of every document is
\* strictly greater than its currentEpisode.
C10_AdvanceEffect ==
  /\ [](\A id \in DOMAIN schedules :
          \A i \in 1..Len(schedules[id].nextEpisodes) :
             schedules[id].nextEpisodes[i].episode > schedules[id].currentEpisode)
  /\ [][AdvanceSaved =>
          LET old == schedules[lastCall'.id]
              new == schedules'[lastCall'.id]
              kept == {i \in 1..Len(old.nextEpisodes) :
                         old.nextEpisodes[i].episode > old.currentEpisode + 1}
          IN  /\ new.currentEpisode = old.currentEpisode + 1
              /\ Len(new.nextEpisodes) = Cardinality(kept)
              /\ \A i \in kept :
                   \E j \in 1..Len(new.nextEpisodes) :
                      new.nextEpisodes[j] = old.nextEpisodes[i]
              /\ \A j \in 1..Len(new.nextEpisodes) :
                   new.nextEpisodes[j].episode > new.currentEpisode
              /\ new.title = old.title
              /\ new.totalEpisodes = old.totalEpisodes
              /\ new.dayOfWeek = old.dayOfWeek
              /\ new.airTime = old.airTime
              /\ new.animeId = old.animeId
              /\ \A id \in DOMAIN schedules' :
                   id # lastCall'.id => schedules'[id] = schedules[id]
     ]_vars

\* An advance that dropped the aired episode and left projected ones behind.
C10_Witness ==
  /\ lastCall.op = "updateScheduleAfterAiring"
  /\ lastCall.outcome = "ok"
  /\ LET doc == schedules[lastCall.id]
     IN  /\ doc.currentEpisode = 6
         /\ Len(doc.nextEpisodes) = 1
         /\ doc.nextEpisodes[1].episode = 7

\* The last call was confirmEpisodeDate and it saved its document.
ConfirmSaved ==
  /\ lastCall.op = "confirmEpisodeDate"
  /\ lastCall.outcome = "ok"

\* C11: after confirmEpisodeDate(id, n) on an existing document, the stored
\* document is the one stored before the call with confirmed = TRUE on exactly
\* the projected entries numbered n, and every other field (the other entries,
\* all dates, currentEpisode, totalEpisodes, title, dayOfWeek, airTime,
\* timezone, autoScheduled, createdAt) as it was; when no entry is numbered n
\* the document is as it was.  updatedAt is left free.
C11_ConfirmFrame ==
  ConfirmSaved =>
    LET old == lastCall.before
        new == schedules[lastCall.id]
    IN  new = [old EXCEPT
                 !.nextEpisodes =
                    [i \in 1..Len(old.nextEpisodes) |->
                       IF old.nextEpisodes[i].episode = lastCall.n
                         THEN [old.nextEpisodes[i] EXCEPT !.confirmed = TRUE]
                         ELSE old.nextEpisodes[i]],
                 !.updatedAt = new.updatedAt]

\* The last call was autoScheduleEpisodes and it saved its document.
AutoScheduleSaved ==
  /\ lastCall.op = "autoScheduleEpisodes"
  /\ lastCall.outcome = "ok"

\* C12: after autoScheduleEpisodes(anime) has saved, the document stored under
\* the id of the title is exactly the freshly computed one, whatever was stored
\* there before: currentEpisode is the number parsed from anime.episode, the
\* projected episodes are the ones the call returned, all with confirmed =
\* FALSE, the timestamps are those of this save, and the document has no other
\* field.
C12_OverwriteInFull ==
  AutoScheduleSaved =>
    LET anime == lastCall.anime
        current == currentEpisodeOf(anime)
        total == IF anime.totalEpisodes # <<>> /\ anime.totalEpisodes[1] # 0
                   THEN anime.totalEpisodes[1]
                 ELSE estimateTotalEpisodes(anime.title, current)
    IN  /\ lastCall.id \in DOMAIN schedules
        /\ \A i \in 1..Len(lastCall.ret) : ~lastCall.ret[i].confirmed
        /\ Len(lastCall.ret) = Max(0, total - current)
        /\ schedules[lastCall.id] =
              [animeId        |-> lastCall.id,
               title          |-> anime.title,
               totalEpisodes  |-> total,
               currentEpisode |-> current,
               dayOfWeek      |-> anime.day,
               airTime        |-> anime.time,
               timezone       |-> "JST",
               autoScheduled  |-> TRUE,
               nextEpisodes   |-> lastCall.ret,
               createdAt      |-> clock,
               updatedAt      |-> clock]

\* autoScheduleEpisodes has replaced a document in which episode 6 had been
\* confirmed: the stored document projects episodes 6 and 7 again, both
\* unconfirmed, and is the only document of the collection.
C12_Witness ==
  /\ AutoScheduleSaved
  /\ lastCall.before # NoDocument
  /\ lastCall.before.currentEpisode = 5
  /\ Len(lastCall.before.nextEpisodes) = 2
  /\ lastCall.before.nextEpisodes[1].episode = 6
  /\ lastCall.before.nextEpisodes[1].confirmed
  /\ schedules[lastCall.id].currentEpisode = 5
  /\ Len(schedules[lastCall.id].nextEpisodes) = 2
  /\ schedules[lastCall.id].nextEpisodes[1].episode = 6
  /\ ~schedules[lastCall.id].nextEpisodes[1].confirmed
  /\ DOMAIN schedules = {lastCall.id}

(***************************************************************************)
(* refreshData: one acquisition cycle.  Each action is the code between    *)
(* two awaits, taken when the awaited call returns.  The cycle runs at UTC *)
(* offset zero, so the local day and the date of toISOString() are both    *)
(* `clock`; scrapedAt is kept to the day.  scrapeAniwatch never rejects    *)
(* (C4) and is represented by the list it resolves with.                   *)
(***************************************************************************)
\* At most MaxCycles calls of refreshData are made, on days up to MaxDay.
MaxCycles == 2
MaxDay == 2

\* firestoreHelpers.saveScrape: setDoc(doc(db, 'scrapes', date), {date, anime, scrapedAt})
saveScrape(store, date, anime, stamp) ==
  [d \in DOMAIN store \cup {date} |->
     IF d = date THEN [date |-> date, anime |-> anime, scrapedAt |-> stamp]
     ELSE store[d]]

\* firestoreHelpers.getScrape: the document, or null when there is none and
\* also when getDoc fails (the catch returns null)
getScrape(store, date, readOk) ==
  IF readOk /\ date \in DOMAIN store THEN store[date] ELSE Null

\* The index of the next entry after position i with anime.trending, 0 if none.
NextTrending(list, i) ==
  LET later == {j \in (i + 1)..Len(list) : list[j].trending}
  IN  IF later = {} THEN 0 ELSE CHOOSE j \in later : \A k \in later : j <= k

\* The awaited call `step` has returned; storeOk: it met no store failure.
Ran(step, storeOk) ==
  /\ ran' = Append(ran, step)
  /\ failedAt' = IF ~storeOk /\ failedAt = 0 THEN Len(ran) + 1 ELSE failedAt

\* catch (err) { setError(...); showToast(..., 'error') } finally { ... }
Caught ==
  /\ uiError' = "Failed to sync. Using cached data."
  /\ toast' = "Sync failed. Using cached data."
  /\ rpc' = "idle"

\* The for loop from after position i: suspend at the next trending entry's
\* autoScheduleEpisodes, or leave the loop, show the toast and finish.
LoopFrom(i) ==
  LET j == NextTrending(scrapedData, i)
  IN  /\ loopIndex' = j
      /\ uiError' = uiError
      /\ IF j = 0
           THEN /\ toast' = "Schedule synced successfully!"
                /\ rpc' = "idle"
           ELSE /\ toast' = toast
                /\ rpc' = "autoScheduleEpisodes"

\* refreshData() up to `await firestoreHelpers.getScrape(yesterdayStr)`
StartRefresh ==
  /\ rpc = "idle"
  /\ cycles < MaxCycles
  /\ cycles' = cycles + 1
  /\ uiError' = "none"
  /\ yesterdayStr' = clock - 1
  /\ rpc' = "getScrape"
  /\ yesterdayData' = Null
  /\ todayStr' = -1
  /\ scrapedData' = <<>>
  /\ loopIndex' = 0
  /\ ran' = <<>>
  /\ failedAt' = 0
  /\ scrapesAtStart' = scrapes
  /\ UNCHANGED <<scrapes, animeSchedule, scheduleChanges, toast, firstStored,
                 parseVars, fetchVars, idVars, taskVars, scrapeVars, dateVars, diffVars, forecastVars>>

\* getScrape returns; refreshData goes on to `await scraper.scrapeAniwatch()`
GetScrapeReturns ==
  /\ rpc = "getScrape"
  /\ \E readOk \in BOOLEAN :
       /\ yesterdayData' = getScrape(scrapes, yesterdayStr, readOk)
       /\ Ran("getScrape", readOk)
  /\ rpc' = "scrapeAniwatch"
  /\ UNCHANGED <<scrapes, yesterdayStr, todayStr, scrapedData, loopIndex,
                 animeSchedule, scheduleChanges, uiError, toast, cycles,
                 scrapesAtStart, firstStored,
                 parseVars, fetchVars, idVars, taskVars, scrapeVars, dateVars, diffVars, forecastVars>>

\* The lists scrapeAniwatch resolves with here: entries carry no episode
\* count (totalEpisodes undefined), as the scraper sets none.
CycleShowX(episode, trending) ==
  [title |-> ShowX, day |-> Friday, time |-> T2000, episode |-> episode,
   trending |-> trending, totalEpisodes |-> <<>>]
CycleShowY(trending) ==
  [title |-> ShowY, day |-> Monday, time |-> T1000, episode |-> Ep6,
   trending |-> trending, totalEpisodes |-> <<>>]
CycleScrapes ==
  { << CycleShowX(Ep5, TRUE), CycleShowY(FALSE) >>,
    << CycleShowX(Ep6, TRUE), CycleShowY(TRUE) >>,
    << CycleShowY(FALSE) >> }

\* scrapeAniwatch returns; setAnimeSchedule, setLastSync, `today` is read, and
\* refreshData goes on to `await firestoreHelpers.saveScrape(today, scrapedData)`
ScrapeReturns ==
  /\ rpc = "scrapeAniwatch"
  /\ \E data \in CycleScrapes :
       /\ scrapedData' = data
       /\ animeSchedule' = data
  /\ todayStr' = clock
  /\ Ran("scrapeAniwatch", TRUE)
  /\ rpc' = "saveScrape"
  /\ UNCHANGED <<scrapes, yesterdayStr, yesterdayData, loopIndex,
                 scheduleChanges, uiError, toast, cycles,
                 scrapesAtStart, firstStored,
                 parseVars, fetchVars, idVars, taskVars, scrapeVars, dateVars, diffVars, forecastVars>>

\* saveScrape returns or throws; on success refreshData goes on to
\* detectChanges when yesterdayData has entries, else to the for loop
SaveScrapeReturns ==
  /\ rpc = "saveScrape"
  /\ \E writeOk \in BOOLEAN :
       /\ Ran("saveScrape", writeOk)
       /\ IF writeOk
            THEN /\ scrapes' = saveScrape(scrapes, todayStr, scrapedData, clock)
                 /\ firstStored' =
                      IF todayStr \in DOMAIN firstStored THEN firstStored
                      ELSE [d \in DOMAIN firstStored \cup {todayStr} |->
                              IF d = todayStr THEN scrapedData ELSE firstStored[d]]
                 /\ IF yesterdayData # Null /\ Len(yesterdayData.anime) > 0
                      THEN /\ rpc' = "detectChanges"
                           /\ UNCHANGED <<loopIndex, uiError, toast>>
                      ELSE LoopFrom(0)
            ELSE /\ Caught
                 /\ UNCHANGED <<scrapes, firstStored, loopIndex>>
  /\ UNCHANGED <<yesterdayStr, yesterdayData, todayStr, scrapedData,
                 animeSchedule, scheduleChanges, cycles, scrapesAtStart,
                 parseVars, fetchVars, idVars, taskVars, scrapeVars, dateVars, diffVars, forecastVars>>

\* detectChanges returns; setScheduleChanges when there are changes, then the
\* for loop
DetectReturns ==
  /\ rpc = "detectChanges"
  /\ LET found == detectChanges(scrapedData, yesterdayData.anime)
     IN  scheduleChanges' = IF Len(found) > 0 THEN found ELSE scheduleChanges
  /\ Ran("detectChanges", TRUE)
  /\ LoopFrom(0)
  /\ UNCHANGED <<scrapes, yesterdayStr, yesterdayData, todayStr, scrapedData,
                 animeSchedule, cycles, scrapesAtStart, firstStored,
                 parseVars, fetchVars, idVars, taskVars, scrapeVars, dateVars, diffVars, forecastVars>>

\* autoScheduleEpisodes(anime) returns or throws for the entry at loopIndex
AutoScheduleReturns ==
  /\ rpc = "autoScheduleEpisodes"
  /\ \E saveOk \in BOOLEAN :
       /\ autoScheduleEpisodes(scrapedData[loopIndex], saveOk)
       /\ Ran("autoScheduleEpisodes", saveOk)
       /\ IF saveOk
            THEN LoopFrom(loopIndex)
            ELSE /\ Caught
                 /\ UNCHANGED loopIndex
  /\ UNCHANGED <<scrapes, yesterdayStr, yesterdayData, todayStr, scrapedData,
                 animeSchedule, scheduleChanges, cycles, scrapesAtStart,
                 firstStored, parseVars, fetchVars, idVars, taskVars>>

\* Midnight passes, during a cycle or between two.
CycleMidnight ==
  /\ clock < MaxDay
  /\ Tick
  /\ UNCHANGED restVars

InitCycle ==
  /\ schedules = <<>>
  /\ clock = 1
  /\ ops = 0
  /\ lastCall = Call("none", NoAnime, <<>>, 0, "ok", <<>>)
  /\ CycleIdle
  /\ ParseIdle
  /\ FetchIdle
  /\ IdIdle
  /\ TaskIdle
  /\ ScrapeIdle
  /\ DateIdle
  /\ DiffIdle

NextCycle ==
  \/ StartRefresh
  \/ GetScrapeReturns
  \/ ScrapeReturns
  \/ SaveScrapeReturns
  \/ DetectReturns
  \/ AutoScheduleReturns
  \/ CycleMidnight

SpecCycle == InitCycle /\ [][NextCycle]_vars

(***************************************************************************)
(* Claims about the acquisition cycle (checked under SpecCycle).           *)
(***************************************************************************)
\* C13: once a call of the cycle has met a failure of the store (getScrape,
\* saveScrape or saveSchedule could not reach it), that call is the last one
\* the cycle makes, the cycle has ended as a failed sync, and every snapshot
\* stored before the cycle started is still stored as it was.
C13_StoreFailureAborts ==
  failedAt # 0 =>
    /\ Len(ran) = failedAt
    /\ rpc = "idle"
    /\ toast = "Sync failed. Using cached data."
    /\ \A d \in DOMAIN scrapesAtStart :
         d \in DOMAIN scrapes /\ scrapes[d] = scrapesAtStart[d]

\* C14: the anime list stored for a date is the one first stored for that
\* date, whatever cycles have run since.
C14_SnapshotImmutable ==
  \A d \in DOMAIN scrapes : scrapes[d].anime = firstStored[d]

(***************************************************************************)
(* parseAniwatchHTML.  The document is given by what the selectors find:   *)
(* the schedule blocks (each with the text of its day header and its list  *)
(* of items) and the flat items.  Of an item the model keeps the text of   *)
(* its title, time and episode elements and the text of its enclosing      *)
(* section; an element that is not there is Undefined.  image, trending    *)
(* and genre of the entries are not modelled.                              *)
(***************************************************************************)
TBA == <<"T","B","A">>

\* element?.textContent?.trim() || fallback
TextOr(text, fallback) ==
  IF text = Undefined THEN fallback
  ELSE IF Trim(text) = <<>> THEN fallback
  ELSE Trim(text)

\* text.replace(/[^0-9]/g, '')
DigitsOnly(text) == SelectSeq(text, LAMBDA c : IndexOf(Digits, c) # 0)

\* The episode of an entry: the digits of the episode element's text, 'New'
\* when the element is missing or its text has no digit (both tiers)
EpisodeLabel(text) ==
  LET digits == DigitsOnly(TextOr(text, EpNew))
  IN  IF digits = <<>> THEN EpNew ELSE digits

\* Flat tier: the first weekday name the section's lowercased text includes
SectionDay(section) ==
  LET parentText == IF section = Undefined THEN <<>> ELSE ToLowerCase(section)
      named == {k \in 1..Len(days) : Includes(parentText, ToLowerCase(days[k]))}
  IN  IF named = {} THEN Unknown
      ELSE days[CHOOSE k \in named : \A j \in named : k <= j]

\* The entry the flat tier pushes for an item that has a title element.
FlatEntry(item, today) ==
  [title   |-> TextOr(item.title, <<>>),
   day     |-> SectionDay(item.section),
   time    |-> TextOr(item.time, TBA),
   episode |-> EpisodeLabel(item.episode),
   date    |-> getDateForDay(SectionDay(item.section), today)]

\* animeItems.forEach(item => { if (titleEl) { schedule.push(...) } })
FlatTier(animeItems, today) ==
  LET withTitleEl == SelectSeq(animeItems, LAMBDA item : item.title # Undefined)
  IN  [i \in 1..Len(withTitleEl) |-> FlatEntry(withTitleEl[i], today)]

\* The entry the block tier pushes for an item with a non-empty title, under
\* the day header text `header`.
BlockEntry(item, header, today) ==
  LET day == TextOr(header, Unknown)
  IN  [title   |-> TextOr(item.title, <<>>),
       day     |-> normalizeDay(day),
       time    |-> TextOr(item.time, TBA),
       episode |-> EpisodeLabel(item.episode),
       date    |-> getDateForDay(day, today)]

\* animeList.forEach(anime => { if (title) { schedule.push(...) } })
BlockItems(block, today) ==
  LET titled == SelectSeq(block.animeList,
                          LAMBDA item : TextOr(item.title, <<>>) # <<>>)
  IN  [i \in 1..Len(titled) |-> BlockEntry(titled[i], block.dayHeader, today)]

\* scheduleBlocks.forEach(block => ...), from block b on
RECURSIVE BlockTier(_, _, _)
BlockTier(scheduleBlocks, b, today) ==
  IF b > Len(scheduleBlocks) THEN <<>>
  ELSE BlockItems(scheduleBlocks[b], today) \o BlockTier(scheduleBlocks, b + 1, today)

parseAniwatchHTML(doc, today) ==
  IF Len(doc.scheduleBlocks) = 0
    THEN FlatTier(doc.animeItems, today)
    ELSE BlockTier(doc.scheduleBlocks, 1, today)

\* Texts found in the document.
ShowXPadded == <<" ","S","h","o","w"," ","X"," ">>
Blank == <<" "," ">>
EpisodeFive == <<"E","p"," ","5">>
OnFriday == <<"O","n"," ","F","r","i","d","a","y">>

\* Items: one with every element, one whose title element has only white
\* space and whose other elements are missing, one without a title element.
ParseItems ==
  { [title |-> ShowXPadded, time |-> T2000, episode |-> EpisodeFive, section |-> OnFriday],
    [title |-> Blank, time |-> Undefined, episode |-> Undefined, section |-> Undefined],
    [title |-> Undefined, time |-> Blank, episode |-> EpNew, section |-> OnFriday] }

\* Day headers: none, an abbreviation, a padded upper-case name, a text that
\* names no weekday, white space only.
ParseHeaders == {Undefined, Mon, FRIDAY_padded, Funday, Blank}

ParseItemLists == UNION {[1..k -> ParseItems] : k \in 0..MaxLen}

ParseBlocks == [dayHeader : ParseHeaders, animeList : ParseItemLists]

\* Documents with no schedule block or one, and up to MaxLen flat items.
ParseDocuments ==
  [scheduleBlocks : UNION {[1..k -> ParseBlocks] : k \in 0..1},
   animeItems : ParseItemLists]

InitParse ==
  /\ ppc = "input"
  /\ document \in ParseDocuments
  /\ parseToday \in ScrapeInstants
  /\ extracted = <<>>
  /\ CycleIdle
  /\ FetchIdle
  /\ IdIdle
  /\ TaskIdle
  /\ ScrapeIdle
  /\ DateIdle
  /\ DiffIdle
  /\ ForecastIdle

\* this.parseAniwatchHTML(html)
CallParse ==
  /\ ppc = "input"
  /\ extracted' = parseAniwatchHTML(document, parseToday)
  /\ ppc' = "done"
  /\ UNCHANGED <<document, parseToday, cycleVars, fetchVars, idVars, taskVars, scrapeVars,
                 dateVars, diffVars, forecastVars>>

NextParse == CallParse

SpecParse == InitParse /\ [][NextParse]_vars

(***************************************************************************)
(* Claims about the extractor (checked under SpecParse).                   *)
(***************************************************************************)
\* C15: every entry parseAniwatchHTML returns, from either tier, has a title
\* with at least one character that is not white space.
C15_TitleNonEmpty ==
  ppc = "done" =>
    \A i \in 1..Len(extracted) : Trim(extracted[i].title) # <<>>

\* The seven weekday names and "Unknown".
DayOfWeekValues == {days[k] : k \in 1..Len(days)} \cup {Unknown}

\* C16: every entry parseAniwatchHTML returns and every entry of the fallback
\* dataset has a day among the seven weekday names and "Unknown".
C16_DayIsCanonical ==
  /\ ppc = "done" =>
       \A i \in 1..Len(extracted) : extracted[i].day \in DayOfWeekValues
  /\ \A i \in 1..Len(FallbackAt[parseToday]) :
       FallbackAt[parseToday][i].day \in DayOfWeekValues

(***************************************************************************)
(* scrapeAniwatch with each attempt taken await by await: the fetch with   *)
(* its 15 s abort timer, then response.text().  What the network does      *)
(* (headers arrive, the body arrives, an error) is up to the network; the  *)
(* timer callback and the steps of the code itself always run.             *)
(***************************************************************************)
\* The catch block, entered with the reason of the failure.
Catch(reason) ==
  /\ lastError' = reason
  /\ IF CatchSleeps(attempt)
       THEN /\ spc' = "sleep"
            /\ UNCHANGED <<proxyIndex, attempt, returned, origin, observations>>
       ELSE Continue(LoopStep(proxyIndex, attempt + 1))

\* The try block up to `await fetch(url, {signal})`: the timer is set.
BeginFetch ==
  /\ spc = "try"
  /\ attempts' = attempts + 1
  /\ timer' = "armed"
  /\ response' = NoResponse
  /\ spc' = "fetch"
  /\ UNCHANGED <<proxyIndex, attempt, totalSleep, lastError, returned, origin,
                 now, observations, dateVars, diffVars, forecastVars,
                 cycleVars, parseVars, idVars, taskVars>>

\* setTimeout(() => controller.abort(), 15000) fires while fetch is pending:
\* fetch rejects with the abort.
TimerFires ==
  /\ spc = "fetch"
  /\ timer = "armed"
  /\ timer' = "fired"
  /\ Catch("timeout")
  /\ UNCHANGED <<response, attempts, totalSleep, now, dateVars, diffVars, forecastVars,
                 cycleVars, parseVars, idVars, taskVars>>

\* fetch rejects with a network error (clearTimeout is not reached).
FetchRejects ==
  /\ spc = "fetch"
  /\ Catch("network")
  /\ UNCHANGED <<timer, response, attempts, totalSleep, now, dateVars, diffVars,
                 forecastVars, cycleVars, parseVars, idVars, taskVars>>

\* fetch resolves with the response headers: clearTimeout(timeoutId), the
\* response.ok check, then `await response.text()`.  Of the outcome f only
\* the status is known at this point.
HeadersArrive ==
  /\ spc = "fetch"
  /\ timer' = "cleared"
  /\ \E f \in FetchOutcomesAt[now] :
       /\ f.kind = "response"
       /\ f.htmlLength = 0
       /\ f.parsed = <<>>
       /\ response' = [NoResponse EXCEPT !.status = f.status]
       /\ IF ResponseOk(f.status)
            THEN /\ spc' = "body"
                 /\ UNCHANGED <<proxyIndex, attempt, lastError, returned,
                                origin, observations>>
            ELSE Catch(TryBlock(f))
  /\ UNCHANGED <<attempts, totalSleep, now, dateVars, diffVars, forecastVars,
                 cycleVars, parseVars, idVars, taskVars>>

\* response.text() resolves: the length check, parseAniwatchHTML and the
\* check of its result.
BodyArrives ==
  /\ spc = "body"
  /\ \E f \in FetchOutcomesAt[now] :
       /\ f.kind = "response"
       /\ f.status = response.status
       /\ response' = [status |-> f.status, htmlLength |-> f.htmlLength,
                       parsed |-> f.parsed]
       /\ IF TryBlock(f) = "ok"
            THEN /\ Resolve(f.parsed, "live")
                 /\ UNCHANGED <<proxyIndex, attempt, lastError>>
            ELSE Catch(TryBlock(f))
  /\ UNCHANGED <<timer, attempts, totalSleep, now, dateVars, diffVars,
                 forecastVars, cycleVars, parseVars, idVars, taskVars>>

\* response.text() rejects: the connection broke while the body was read.
BodyRejects ==
  /\ spc = "body"
  /\ Catch("network")
  /\ UNCHANGED <<timer, response, attempts, totalSleep, now, dateVars, diffVars,
                 forecastVars, cycleVars, parseVars, idVars, taskVars>>

NextFetch ==
  \/ StartScrape
  \/ BeginFetch
  \/ TimerFires
  \/ FetchRejects
  \/ HeadersArrive
  \/ BodyArrives
  \/ BodyRejects
  \/ Sleep

\* The code's own steps and the timer callback are always run by the event
\* loop; the network owes nothing.
SpecFetch ==
  /\ InitScrape
  /\ [][NextFetch]_vars
  /\ WF_vars(BeginFetch)
  /\ WF_vars(TimerFires)
  /\ WF_vars(Sleep)

\* C17: an attempt that is pending (fetch or body) always has its 15 s timer
\* armed, and every run of scrapeAniwatch that has started returns.
C17_AttemptIsCapped ==
  /\ [](spc \in {"fetch", "body"} => timer = "armed")
  /\ (spc \in {"try", "fetch", "body", "sleep"}) ~> (spc = "returned")

\* The step ends a pending attempt as a failure.
AttemptFailed ==
  /\ spc \in {"fetch", "body"}
  /\ spc' \notin {"fetch", "body"}
  /\ ~(spc' = "returned" /\ origin' = "live")

\* The position after a failed attempt number `attempt` on transport
\* `proxyIndex`, as the protocol has it: sleep and stay on the transport while
\* it has attempts left, else go to the next transport with attempt 0, else
\* return the fallback.
AfterFailure ==
  IF attempt < MAX_RETRIES - 1
    THEN spc' = "sleep" /\ proxyIndex' = proxyIndex /\ attempt' = attempt
  ELSE IF proxyIndex < Len(CORS_PROXIES) - 1
    THEN spc' = "try" /\ proxyIndex' = proxyIndex + 1 /\ attempt' = 0
  ELSE spc' = "returned" /\ origin' = "fallback"

\* C18: the fetches of a run are made one at a time in the order transport 0
\* attempts 0, 1, 2, transport 1 attempts 0, 1, 2, ...; a failed attempt k
\* with attempts left on its transport is followed by a sleep of
\* INITIAL_DELAY x 2^k ms (1000, then 2000) and attempt k + 1 on the same
\* transport; the third failed attempt on a transport is followed, without a
\* sleep, by attempt 0 on the next transport; and after the successful
\* attempt no fetch is made until the next call.
C18_TransportProtocol ==
  /\ [](/\ spc = "try" =>
             /\ proxyIndex < Len(CORS_PROXIES) /\ attempt < MAX_RETRIES
             /\ attempts = proxyIndex * MAX_RETRIES + attempt
        /\ spc \in {"fetch", "body", "sleep"} =>
             /\ proxyIndex < Len(CORS_PROXIES) /\ attempt < MAX_RETRIES
             /\ attempts = proxyIndex * MAX_RETRIES + attempt + 1)
  /\ [][/\ AttemptFailed => (AfterFailure /\ totalSleep' = totalSleep)
        /\ spc = "sleep" =>
             /\ spc' = "try"
             /\ proxyIndex' = proxyIndex
             /\ attempt' = attempt + 1
             /\ totalSleep' = totalSleep + INITIAL_DELAY * Pow2(attempt)
             /\ totalSleep' - totalSleep \in {1000, 2000}
        /\ spc = "returned" =>
             /\ spc' = "try"
             /\ attempts' = 0
             /\ proxyIndex' = 0
             /\ attempt' = 0
     ]_vars

\* The third attempt on the second transport is about to be made: three
\* failures on the first transport and two on the second lie behind, with
\* the sleeps 1000 + 2000 + 1000 + 2000 ms.
C18_Witness ==
  /\ spc = "try"
  /\ proxyIndex = 1
  /\ attempt = 2
  /\ attempts = 5
  /\ totalSleep = 6000

\* C19: a run returns a live result only from a response with a 2xx status, a
\* body of at least 1000 characters and a non-empty extraction, and returns
\* that extraction; an attempt that ends with the timer firing, a non-2xx
\* status, a shorter body or an empty extraction is a failed attempt, uses up
\* no further attempt, and is followed by the same next step as any other
\* failure at that position.
C19_NoFalseSuccess ==
  /\ []((spc = "returned" /\ origin = "live") =>
          /\ response.status >= 200 /\ response.status <= 299
          /\ response.htmlLength >= 1000
          /\ Len(response.parsed) > 0
          /\ returned = response.parsed)
  /\ [][/\ (spc = "fetch" /\ timer' = "fired") =>
             (AttemptFailed /\ lastError' = "timeout")
        /\ (spc = "fetch" /\ spc' # "fetch" /\ response'.status \notin 200..299
              /\ timer' = "cleared") =>
             (AttemptFailed /\ lastError' = "http_status")
        /\ (spc = "body" /\ response' # response /\ response'.htmlLength < 1000) =>
             (AttemptFailed /\ lastError' = "too_short")
        /\ (spc = "body" /\ response' # response /\ response'.htmlLength >= 1000
              /\ Len(response'.parsed) = 0) =>
             (AttemptFailed /\ lastError' = "no_data")
        /\ AttemptFailed => (AfterFailure /\ attempts' = attempts)
     ]_vars

\* A live result returned by the second attempt, after a first response that
\* was long enough but extracted to nothing.
C19_Witness ==
  /\ spc = "returned"
  /\ origin = "live"
  /\ lastError = "no_data"
  /\ attempts = 2
  /\ response.htmlLength >= 1000

(***************************************************************************)
(* Claims about the order of detectChanges' result (checked under          *)
(* SpecDiff).                                                              *)
(***************************************************************************)
\* The positions of todayScrape that hold the title.
PositionsOf(title) == {i \in 1..Len(todayScrape) : todayScrape[i].title = title}

\* The place of a record type among the records of one entry; the record of
\* a changed day is typed "delay" by the code.
Rank(type) ==
  CASE type = "time_change" -> 1
    [] type \in {"day_change", "delay"} -> 2
    [] type = "episode_update" -> 3
    [] OTHER -> 0

\* C20: in the list detectChanges returns, no record follows a cancellation
\* record except cancellation records; the other records are in the order in
\* which their entries stand in current; and the records of one entry are in
\* the order time change, day change, episode update.
C20_ResultOrdering ==
  cpc = "done" =>
    \A n \in 1..Len(changes) : \A m \in (n + 1)..Len(changes) :
       /\ changes[n].type = "cancellation" => changes[m].type = "cancellation"
       /\ changes[m].type # "cancellation" =>
            /\ PositionsOf(changes[n].anime) # {}
            /\ PositionsOf(changes[m].anime) # {}
            /\ \E i \in PositionsOf(changes[n].anime) :
                 \E j \in PositionsOf(changes[m].anime) : i <= j
            /\ (changes[n].anime = changes[m].anime
                  /\ Cardinality(PositionsOf(changes[n].anime)) = 1)
                 => Rank(changes[n].type) < Rank(changes[m].type)

\* A changed entry before a new one, and a cancellation: the result lists
\* the three field changes of the first entry, the new entry, then the
\* cancellation.
C20_Witness ==
  /\ cpc = "done"
  /\ Len(changes) = 5
  /\ changes[1].type = "time_change"
  /\ changes[2].type = "delay"
  /\ changes[3].type = "episode_update"
  /\ changes[4].type = "new"
  /\ changes[5].type = "cancellation"
  /\ changes[1].anime = todayScrape[1].title
  /\ changes[4].anime = todayScrape[2].title

(***************************************************************************)
(* Claims about the dates autoScheduleEpisodes projects (checked under     *)
(* SpecSchedule).                                                          *)
(***************************************************************************)
\* The weekday number of a day name, 0 = Sunday; a name that is none of the
\* seven counts as Sunday.
WeekdayOf(name) ==
  IF \E i \in 1..7 : days[i] = name
    THEN (CHOOSE i \in 1..7 : days[i] = name) - 1
    ELSE 0

\* The first day on or after `from` whose weekday is w.
OnOrAfter(w, from) == CHOOSE d \in from..(from + 6) : d % 7 = w

\* C21 as stated: the first projected episode is dated at the next occurrence
\* of dayOfWeek on or after the day of the call (that day itself when its
\* weekday is dayOfWeek, otherwise 1 to 6 days later), and episode
\* currentEpisode + k is dated (k - 1) * 7 days after that date.
C21_AnchorOnOrAfter ==
  (AutoScheduleSaved /\ \E i \in 1..7 : days[i] = lastCall.anime.day) =>
    LET first == OnOrAfter(WeekdayOf(lastCall.anime.day), clock)
    IN  \A k \in 1..Len(lastCall.ret) :
          /\ lastCall.ret[k].episode = schedules[lastCall.id].currentEpisode + k
          /\ lastCall.ret[k].date = first + (k - 1) * 7

\* C21 amended: the first projected episode is dated at the first occurrence
\* of dayOfWeek strictly after the day of the call (1 to 7 days later: a week
\* later when the call is made on that weekday; a dayOfWeek that is none of
\* the seven names counts as Sunday), and episode currentEpisode + k is dated
\* (k - 1) * 7 days after that date.
C21_AnchorStrictlyAfter ==
  AutoScheduleSaved =>
    LET first == OnOrAfter(WeekdayOf(lastCall.anime.day), clock + 1)
    IN  /\ first - clock \in 1..7
        /\ \A k \in 1..Len(lastCall.ret) :
              /\ lastCall.ret[k].episode = schedules[lastCall.id].currentEpisode + k
              /\ lastCall.ret[k].date = first + (k - 1) * 7

\* A Monday show scheduled on a Monday: the first projected episode is dated
\* a week later and the second two weeks later.
C21_Witness ==
  /\ AutoScheduleSaved
  /\ lastCall.anime.day = Monday
  /\ clock % 7 = 1
  /\ Len(lastCall.ret) >= 2
  /\ lastCall.ret[1].date = clock + 7
  /\ lastCall.ret[2].date = clock + 14

\* C22 as stated: in the document autoScheduleEpisodes has stored, every
\* projected entry is dated exactly (episode - currentEpisode) weeks after the
\* next occurrence of dayOfWeek on or after the day of the call.
C22_WeeksAfterNextOccurrence ==
  (AutoScheduleSaved /\ \E i \in 1..7 : days[i] = lastCall.anime.day) =>
    LET doc == schedules[lastCall.id]
        anchor == OnOrAfter(WeekdayOf(doc.dayOfWeek), doc.createdAt)
    IN  \A i \in 1..Len(doc.nextEpisodes) :
          doc.nextEpisodes[i].date =
            anchor + (doc.nextEpisodes[i].episode - doc.currentEpisode) * 7

\* C22 amended: in the document autoScheduleEpisodes has stored, every
\* projected entry is dated exactly (episode - currentEpisode - 1) weeks after
\* the first occurrence of dayOfWeek strictly after the day of the call (a
\* dayOfWeek that is none of the seven names counts as Sunday), for every
\* entry and every currentEpisode.
C22_WeeksAfterFirstEpisode ==
  AutoScheduleSaved =>
    LET doc == schedules[lastCall.id]
        anchor == OnOrAfter(WeekdayOf(doc.dayOfWeek), doc.createdAt + 1)
    IN  \A i \in 1..Len(doc.nextEpisodes) :
          doc.nextEpisodes[i].date =
            anchor + (doc.nextEpisodes[i].episode - doc.currentEpisode - 1) * 7

\* A long-running Saturday show at episode 30 stored on a Friday: episode 31
\* is dated the next day and episode 82 fifty-one weeks after it.
C22_Witness ==
  /\ AutoScheduleSaved
  /\ LET doc == schedules[lastCall.id]
     IN  /\ doc.dayOfWeek = Saturday
         /\ doc.createdAt % 7 = 5
         /\ doc.currentEpisode = 30
         /\ Len(doc.nextEpisodes) = 52
         /\ doc.nextEpisodes[1].date = doc.createdAt + 1
         /\ doc.nextEpisodes[52].episode = 82
         /\ doc.nextEpisodes[52].date = doc.createdAt + 1 + 51 * 7

(***************************************************************************)
(* Claims about the episode numbers autoScheduleEpisodes stores (checked   *)
(* under SpecSchedule).                                                    *)
(***************************************************************************)
\* The count the title's bucket gives: long-running before two-cour before
\* the default.
BucketCount(title, currentEpisode) ==
  IF \E i \in 1..Len(longRunning) : Includes(ToLowerCase(title), longRunning[i])
    THEN currentEpisode + 52
  ELSE IF \E i \in 1..Len(twoCour) : Includes(ToLowerCase(title), twoCour[i])
    THEN (IF currentEpisode > 24 THEN currentEpisode ELSE 24)
  ELSE (IF currentEpisode > 12 THEN currentEpisode ELSE 12)

\* C23 as stated: the stored totalEpisodes is the entry's enrichment count
\* whenever the entry carries one, whatever its value; otherwise it is the
\* count of the title's bucket.
C23_TotalResolution ==
  AutoScheduleSaved =>
    LET doc == schedules[lastCall.id]
    IN  doc.totalEpisodes =
          IF lastCall.anime.totalEpisodes # <<>>
            THEN lastCall.anime.totalEpisodes[1]
            ELSE BucketCount(lastCall.anime.title, doc.currentEpisode)

\* C23 amended: the stored totalEpisodes is the entry's enrichment count
\* when the entry carries one other than 0 (also one below currentEpisode);
\* when it carries none, or carries 0, it is the count of the title's bucket:
\* currentEpisode + 52 for a long-running title, max(24, currentEpisode) for
\* a two-cour title, max(12, currentEpisode) by default, long-running first.
C23_TotalResolutionNonZero ==
  AutoScheduleSaved =>
    LET doc == schedules[lastCall.id]
    IN  doc.totalEpisodes =
          IF lastCall.anime.totalEpisodes # <<>> /\ lastCall.anime.totalEpisodes[1] # 0
            THEN lastCall.anime.totalEpisodes[1]
            ELSE BucketCount(lastCall.anime.title, doc.currentEpisode)

\* An entry carrying the count 0 whose title is in both lists: the stored
\* count is that of the long-running bucket.
C23_Witness ==
  /\ AutoScheduleSaved
  /\ lastCall.anime.title = OnePieceKingdom
  /\ lastCall.anime.totalEpisodes = <<0>>
  /\ schedules[lastCall.id].currentEpisode = 3
  /\ schedules[lastCall.id].totalEpisodes = 55

\* C24: the currentEpisode autoScheduleEpisodes stores is an integer of at
\* least 1 for every entry, and it is 1 for an episode label that does not
\* start with a number (such as "New").
C24_CurrentEpisodeAtLeastOne ==
  AutoScheduleSaved =>
    /\ schedules[lastCall.id].currentEpisode \in Nat
    /\ schedules[lastCall.id].currentEpisode >= 1
    /\ lastCall.anime.episode = EpNew => schedules[lastCall.id].currentEpisode = 1

(***************************************************************************)
(* The animeId of the schedule saveScheduleToFirestore builds, for two     *)
(* entries at a time.                                                      *)
(***************************************************************************)
ReZero == <<"R","e",":"," ","Z","e","r","o">>
RE_ZERO == <<"R","E",":"," ","Z","E","R","O">>
Istanbul == <<CapitalIWithDot,"s","t","a","n","b","u","l"," ","2">>

\* Titles that differ in letter case only, titles with the same id, a run of
\* two replaced characters, a digit, and a letter whose lower case is longer.
IdTitles == {ReZero, RE_ZERO, ShowX, Show_X, Kingdom, Istanbul}

\* The two entries: every pair of titles, the other fields equal or not.
IdInputs ==
  { << [title |-> a, day |-> Monday, time |-> T1800, episode |-> Ep3,
        totalEpisodes |-> <<>>],
       [title |-> b, day |-> d, time |-> T2000, episode |-> EpNew,
        totalEpisodes |-> <<7>>] >> : a \in IdTitles, b \in IdTitles,
                                      d \in {Monday, Saturday} }

InitShowId ==
  /\ ipc = "input"
  /\ idInput \in IdInputs
  /\ idOutput = <<>>
  /\ TaskIdle
  /\ CycleIdle
  /\ ParseIdle
  /\ FetchIdle
  /\ ScrapeIdle
  /\ DateIdle
  /\ DiffIdle
  /\ ForecastIdle

\* const schedule = { animeId: ..., ... } for each of the two entries
BuildSchedules ==
  /\ ipc = "input"
  /\ ipc' = "done"
  /\ idOutput' = [k \in 1..2 |-> scheduleOf(idInput[k], clock).animeId]
  /\ UNCHANGED <<idInput, taskVars, cycleVars, parseVars, fetchVars, scrapeVars, dateVars,
                 diffVars, forecastVars>>

NextShowId == BuildSchedules

SpecShowId == InitShowId /\ [][NextShowId]_vars

\* The character is one of a-z, 0-9.
IsAlphanumeric(c) ==
  c \in {LowerCase[i] : i \in 1..Len(LowerCase)} \cup {Digits[i] : i \in 1..Len(Digits)}

\* The id is the text with every character outside a-z, 0-9 replaced by one "-".
IsReplaced(id, text) ==
  /\ Len(id) = Len(text)
  /\ \A i \in 1..Len(text) :
       id[i] = IF IsAlphanumeric(text[i]) THEN text[i] ELSE "-"

\* C25 as stated: the animeId is the lowercased title with every character
\* outside a-z, 0-9 replaced by one "-", it has the length of the title, it
\* depends on the title alone, and titles equal ignoring letter case have the
\* same animeId.
C25_ShowIdOfTitle ==
  ipc = "done" =>
    /\ \A k \in 1..2 :
         /\ IsReplaced(idOutput[k], ToLowerCase(idInput[k].title))
         /\ Len(idOutput[k]) = Len(idInput[k].title)
    /\ ToLowerCase(idInput[1].title) = ToLowerCase(idInput[2].title)
         => idOutput[1] = idOutput[2]

\* C25 amended: the animeId is the lowercased title with every character
\* outside a-z, 0-9 replaced by one "-", so it has the length of the
\* lowercased title; it depends on the title alone, and titles equal ignoring
\* letter case have the same animeId.
C25_ShowIdOfLowercasedTitle ==
  ipc = "done" =>
    /\ \A k \in 1..2 :
         /\ IsReplaced(idOutput[k], ToLowerCase(idInput[k].title))
         /\ Len(idOutput[k]) = Len(ToLowerCase(idInput[k].title))
    /\ ToLowerCase(idInput[1].title) = ToLowerCase(idInput[2].title)
         => idOutput[1] = idOutput[2]

\* Two entries whose titles differ in letter case only and whose other
\* fields differ: both get the id with two separators in a row.
C25_Witness ==
  /\ ipc = "done"
  /\ idInput[1].title = ReZero
  /\ idInput[2].title = RE_ZERO
  /\ idInput[1].day # idInput[2].day
  /\ idOutput[1] = <<"r","e","-","-","z","e","r","o">>
  /\ idOutput[2] = idOutput[1]

(***************************************************************************)
(* Claim about the order of the two tiers of parseAniwatchHTML (checked    *)
(* under SpecParse).                                                       *)
(***************************************************************************)
\* No item of any schedule block has a title: the block tier yields nothing.
NoBlockEntry ==
  \A b \in 1..Len(document.scheduleBlocks) :
    \A i \in 1..Len(document.scheduleBlocks[b].animeList) :
       \/ document.scheduleBlocks[b].animeList[i].title = Undefined
       \/ Trim(document.scheduleBlocks[b].animeList[i].title) = <<>>

\* C26: whenever the block tier yields no entry, also when schedule blocks
\* are found but none of their items has a title, the flat tier is run and
\* its entries are returned.
C26_FirstNonEmptyTierWins ==
  (ppc = "done" /\ NoBlockEntry) =>
    extracted = FlatTier(document.animeItems, parseToday)

(***************************************************************************)
(* Claim about the 'new' records of detectChanges (checked under SpecDiff). *)
(***************************************************************************)
\* C27: detectChanges emits no 'new' record for a title whose lower case is
\* the lower case of a title of previous, whatever the two lists are, also
\* when current holds the same title more than once.
C27_NoNewForKnownTitle ==
  cpc = "done" =>
    \A n \in 1..Len(changes) :
       changes[n].type = "new" =>
         \A j \in 1..Len(yesterdayScrape) :
            ToLowerCase(yesterdayScrape[j].title) # ToLowerCase(changes[n].anime)

(***************************************************************************)
(* Two calls of updateScheduleAfterAiring / confirmEpisodeDate for the     *)
(* same document in flight at once.  Each call is suspended twice: at      *)
(* `await getSchedules()` and at `await saveSchedule(...)`; the code       *)
(* between two awaits runs without interruption.                           *)
(***************************************************************************)
\* The documents the collection holds when the two calls are made: a show
\* at episode 5 of 7 and a show at episode 1 of 12.
StartEntries ==
  { [title |-> ShowX, day |-> Friday, time |-> T2000, episode |-> Ep5,
     totalEpisodes |-> <<7>>],
    [title |-> ShowY, day |-> Monday, time |-> T1000, episode |-> Ep1,
     totalEpisodes |-> <<>>] }

\* The calls: an advance, or a confirm of the k-th episode after the current.
TaskCalls == {[op |-> "updateScheduleAfterAiring", k |-> 0]}
               \cup {[op |-> "confirmEpisodeDate", k |-> k] : k \in 1..2}

\* A call that has been made and awaits getSchedules().
Called(call, doc) ==
  [op |-> call.op, animeId |-> doc.animeId,
   episodeNumber |-> doc.currentEpisode + call.k,
   pc |-> "getSchedules", saving |-> NoDocument]

InitTasks ==
  /\ clock \in {0, 1}
  /\ \E anime \in StartEntries :
       /\ schedules = saveSchedule(<<>>, scheduleOf(anime, clock), clock)
       /\ atStart = schedules[animeIdOf(anime.title)]
  /\ ops = 0
  /\ lastCall = <<>>
  /\ \E a \in TaskCalls : \E b \in TaskCalls :
       tasks = <<Called(a, atStart), Called(b, atStart)>>
  /\ CycleIdle
  /\ ParseIdle
  /\ FetchIdle
  /\ IdIdle
  /\ ScrapeIdle
  /\ DateIdle
  /\ DiffIdle

\* getSchedules() resolves for call t: the call returns when the document is
\* not found; otherwise it builds the document to save from the one it has
\* just read and calls saveSchedule.
GetSchedulesResolves(t) ==
  /\ tasks[t].pc = "getSchedules"
  /\ \E readOk \in BOOLEAN :
       LET found == getSchedules(schedules, readOk)
           schedule == found[tasks[t].animeId]
       IN  tasks' =
             [tasks EXCEPT ![t] =
                IF tasks[t].animeId \notin DOMAIN found
                  THEN [@ EXCEPT !.pc = "not_found"]
                ELSE IF tasks[t].op = "updateScheduleAfterAiring"
                  THEN [@ EXCEPT !.pc = "saveSchedule",
                                 !.saving = afterAiring(schedule)]
                ELSE [@ EXCEPT !.pc = "saveSchedule",
                               !.saving = afterConfirm(schedule, tasks[t].episodeNumber)]]
  /\ UNCHANGED <<atStart, forecastVars, scrapeVars, dateVars, diffVars,
                 cycleVars, parseVars, fetchVars, idVars>>

\* saveSchedule(...) resolves or rejects for call t.
SaveScheduleResolves(t) ==
  /\ tasks[t].pc = "saveSchedule"
  /\ \E saveOk \in BOOLEAN :
       IF saveOk
         THEN /\ schedules' = saveSchedule(schedules, tasks[t].saving, clock)
              /\ tasks' = [tasks EXCEPT ![t].pc = "ok"]
         ELSE /\ schedules' = schedules
              /\ tasks' = [tasks EXCEPT ![t].pc = "rejected"]
  /\ UNCHANGED <<atStart, clock, ops, lastCall, scrapeVars, dateVars, diffVars,
                 cycleVars, parseVars, fetchVars, idVars>>

NextTasks ==
  \/ \E t \in 1..2 : GetSchedulesResolves(t)
  \/ \E t \in 1..2 : SaveScheduleResolves(t)

SpecTasks == InitTasks /\ [][NextTasks]_vars

\* The number of the two calls that are advances.
Advances ==
  Cardinality({t \in 1..2 : tasks[t].op = "updateScheduleAfterAiring"})

\* C28: when two calls of updateScheduleAfterAiring / confirmEpisodeDate for
\* the same document have both saved, whatever the interleaving, the stored
\* document reflects both: currentEpisode has grown by the number of advances
\* (by one for an advance and a confirm, by two for two advances), and every
\* entry still projected whose number was confirmed has confirmed = TRUE.
C28_NoLostUpdate ==
  (\A t \in 1..2 : tasks[t].pc = "ok") =>
    LET stored == schedules[atStart.animeId]
    IN  /\ stored.currentEpisode = atStart.currentEpisode + Advances
        /\ \A t \in 1..2 :
             tasks[t].op = "confirmEpisodeDate" =>
               \A i \in 1..Len(stored.nextEpisodes) :
                  stored.nextEpisodes[i].episode = tasks[t].episodeNumber
                    => stored.nextEpisodes[i].confirmed

(***************************************************************************)
(* Claims about the stored documents of different calls (checked under     *)
(* SpecForecast).                                                          *)
(***************************************************************************)
\* C29: in every stored document reachable by autoScheduleEpisodes and
\* updateScheduleAfterAiring calls, currentEpisode is at most totalEpisodes.
C29_CurrentWithinTotal ==
  \A id \in DOMAIN schedules :
     schedules[id].currentEpisode <= schedules[id].totalEpisodes

\* C30: autoScheduleEpisodes never replaces the stored document of another
\* show: when it saves under an id that held a document, that document's
\* title and the entry's title are equal in lower case.
C30_NoOverwriteOfOtherShow ==
  (AutoScheduleSaved /\ lastCall.before # NoDocument) =>
    ToLowerCase(lastCall.before.title) = ToLowerCase(lastCall.anime.title)

=============================================================================
